---- MODULE Spec2Model ----
(***************************************************************************)
(* A model of the FTP server of src/ftp_server.c.                          *)
(*                                                                         *)
(* Spec        the supervisor task (ftp_server), the worker tasks          *)
(*             (ftp_task) and the public control API (ftp_start, ftp_stop, *)
(*             ftp_clear_errors, ftp_set_port) as preemptively scheduled   *)
(*             tasks that share FTP.status, FTP.errors and the slot table  *)
(*             ftp_links.  Every load and every store of a shared field is *)
(*             a step of its own: none of the fields is atomic, volatile   *)
(*             or guarded by a lock in the source.                         *)
(***************************************************************************)
EXTENDS Integers, Sequences, FiniteSets, TLC

\* ------------------------------------------------------------------ bounds

\* Number of client slots (FTP_NBR_CLIENTS, configurable; the shipped default is 1).
NbrClients == 2

\* How many failures one behaviour holds: a transport call that fails, a start
\* with port 0, a stop whose polls run out.
MaxFaults == 1

\* --------------------------------------------------------------- constants

\* Polls of the busy flags in ftp_stopping.
StopPolls == 6

NoConnAllowed == "421 No more connections allowed\r\n"

Slots == 0 .. (NbrClients - 1)

\* The supervisor task is process NbrClients; worker i is process i.
Sup == NbrClients

Procs == 0 .. NbrClients

\* A null connection pointer.
NULL == 0

\* Connection objects: at most one per slot plus the one the supervisor holds.
ConnIds == 1 .. (NbrClients + 1)

StatusValues == {"IDLE", "STARTING", "RUNNING", "STOPPING", "ERROR_STOPPING", "ERROR"}

ServerErrorCodes ==
    {"SERVER_NETCONN_NEW", "PORT_IS_ZERO", "BIND_TO_PORT", "SERVER_NETCONN_LISTEN",
     "SERVER_NETCONN_DELETE", "NOT_ALL_TASK_DISABLED"}

ClientErrorCodes == {"CLIENT_NETCONN_WRITE", "CLIENT_NETCONN_DELETE"}

ListenDataErrorCodes ==
    {"LISTEN_DATA_NETCONN_NEW", "LISTEN_DATA_NETCONN_BIND", "LISTEN_DATA_NETCONN_LISTEN",
     "LISTEN_DATA_NETCONN_CLOSE", "LISTEN_DATA_NETCONN_DELETE"}

DataErrorCodes ==
    {"DATA_NETCONN_NEW", "DATA_NETCONN_BIND", "DATA_NETCONN_CLOSE", "DATA_NETCONN_DELETE"}

ErrorCodes == ServerErrorCodes \cup ClientErrorCodes \cup ListenDataErrorCodes \cup DataErrorCodes

VARIABLES
    status,     \* FTP.status
    errors,     \* FTP.errors, as the set of the bits that are set
    port,       \* FTP.port
    conn,       \* ftp_links[i].ftp_connection (NULL or a connection object)
    busy,       \* ftp_links[i].busy
    stop,       \* ftp_links[i].stop
    pc,         \* position of every task (workers and supervisor)
    ecall,      \* a task's call of ftp_set_error in progress
    srv,        \* the supervisor's local ftp_srv_conn
    sloc,       \* the supervisor's other locals
    wloc,       \* how the session of a worker ended ("none" while it has not)
    apc,        \* position of the application task inside the control API
    faults,     \* failures still allowed in the run
    stopocc,    \* history: the slots that were occupied when ftp_stop stored STOPPING,
                \* kept until the supervisor has set the stop flags
    errpend,    \* history: ftp_set_error has stored FTP_ERROR_STOPPING and FTP_ERROR
                \* has not been stored since
    ses,        \* the ftp_data_t of one worker: the fields a session reads and writes
    last,       \* the command that session processed last and what its handler did
    stor,       \* the receive loop of ftp_cmd_stor: pending bytes, file writes, replies
    rd          \* ftp_read_command of worker 0: the polling loop and what follows it

svars ==
    <<status, errors, port, conn, busy, stop, pc, ecall, srv, sloc, wloc, apc, faults, stopocc,
      errpend>>

sesvars == <<ses, last, stor, rd>>

vars == <<svars, sesvars>>

NoCall == [st |-> 0, codes |-> {}, tmp |-> {}]

NoWrite == [text |-> "", res |-> "none"]

\* ftp_data.ftp_con_num of the worker whose sessions are followed.
ftp_con_num == 0

SLocInit ==
    [index |-> 0, client |-> NULL, cnt |-> 0, from |-> "-", rejw |-> NoWrite, seen |-> {},
     att |-> "-", codes |-> {}]

\* ------------------------------------------------- session-level state

\* ftp_links is a zero-initialised static object: before the first session
\* every field of ftp_data is 0 (FTP_USER_NONE, DCM_NOT_SET, null pointers,
\* empty strings).  A string is the sequence of its characters.  listen_port is
\* the local port of the netconn listdataconn points to, 0 while it has none.
\* finfo holds the date and time f_stat and f_readdir store in ftp->finfo.
SesInit ==
    [st |-> "closed", wild |-> FALSE, user |-> "NONE",
     path |-> <<>>, path_rename |-> <<>>,
     data_conn_mode |-> "NOT_SET", dataconn |-> FALSE, listdataconn |-> FALSE,
     listen_port |-> 0, data_port |-> 0, data_port_incremented |-> 0,
     ftp_con_num |-> ftp_con_num,
     finfo |-> [fdate |-> 0, ftime |-> 0]]

\* No command processed yet.
NoCommand == [verb |-> "-", param |-> <<>>, ev |-> <<>>, res |-> "-"]

\* ftp_cmd_stor is not running.
StorInit ==
    [st |-> "idle", sent |-> 0, chain |-> <<>>, buf |-> <<>>, writes |-> <<>>,
     wfail |-> FALSE, con_err |-> "-", ev |-> <<>>, res |-> "-"]

\* ftp_service is about to call ftp_read_command (line 1372).
RdInit ==
    [st |-> "service", i |-> 0, res |-> "OK", err |-> "ERR_OK", ticks |-> <<>>, did |-> "-"]

\* The server's state after ftp_server has zeroed FTP and ftp_links.
ServerInit ==
    /\ status = "IDLE"
    /\ errors = {}
    /\ port = 0
    /\ conn = [i \in Slots |-> NULL]
    /\ busy = [i \in Slots |-> FALSE]
    /\ stop = [i \in Slots |-> FALSE]
    /\ pc = [p \in Procs |-> IF p = Sup THEN "switch" ELSE "idle"]
    /\ ecall = [p \in Procs |-> NoCall]
    /\ srv = "unset"
    /\ sloc = SLocInit
    /\ wloc = [i \in Slots |-> "none"]
    /\ apc = "ready"
    /\ faults = MaxFaults
    /\ stopocc = {}
    /\ errpend = FALSE

Init ==
    /\ ServerInit
    /\ ses = SesInit
    /\ last = NoCommand
    /\ stor = StorInit
    /\ rd = RdInit

\* A task runs its own code only while it is not inside ftp_set_error.
At(p, l) == pc[p] = l /\ ecall[p].st = 0

\* The call ftp_set_error(code) by task p, which continues at `next` afterwards.
\* Nothing reads the argument before line 164 stores it, so a call whose code is
\* any one of `codes` keeps the choice open until that store.
CallSetErrorOf(p, codes, next) ==
    /\ pc' = [pc EXCEPT ![p] = next]
    /\ ecall' = [ecall EXCEPT ![p] = [st |-> 1, codes |-> codes, tmp |-> {}]]

CallSetError(p, code, next) == CallSetErrorOf(p, {code}, next)

Goto(p, next) ==
    /\ pc' = [pc EXCEPT ![p] = next]
    /\ ecall' = ecall

\* ftp_set_error, line 163: FTP.status = FTP_ERROR_STOPPING.
SetErrorStatus(p) ==
    /\ ecall[p].st = 1
    /\ status' = "ERROR_STOPPING"
    /\ ecall' = [ecall EXCEPT ![p].st = 2]
    /\ errpend' = TRUE
    /\ UNCHANGED <<errors, port, conn, busy, stop, pc, srv, sloc, wloc, apc, faults, stopocc, sesvars>>

\* ftp_set_error, line 164: the load of FTP.errors in FTP.errors |= 1 << error.
SetErrorLoad(p) ==
    /\ ecall[p].st = 2
    /\ ecall' = [ecall EXCEPT ![p].st = 3, ![p].tmp = errors]
    /\ UNCHANGED <<status, errors, port, conn, busy, stop, pc, srv, sloc, wloc, apc, faults, stopocc, sesvars, errpend>>

\* ftp_set_error, line 164: the store of FTP.errors | (1 << error).
SetErrorStore(p) ==
    /\ ecall[p].st = 3
    /\ \E code \in ecall[p].codes : errors' = ecall[p].tmp \cup {code}
    /\ ecall' = [ecall EXCEPT ![p] = NoCall]
    /\ UNCHANGED <<status, port, conn, busy, stop, pc, srv, sloc, wloc, apc, faults, stopocc, sesvars, errpend>>


\* ------------------------------------------------------------- supervisor
\* A step holds at most one access to a shared field; the code between two
\* accesses, which touches only the task's own objects, belongs to the step of
\* the access before it.

SupLocalsReset == [sloc EXCEPT !.index = 0, !.cnt = 0, !.from = "-", !.seen = {}]

\* The smallest connection object that is neither held by a slot nor by the supervisor.
FreshConn ==
    CHOOSE c \in ConnIds :
        /\ c \notin ({conn[i] : i \in Slots} \cup {sloc.client})
        /\ \A d \in ConnIds : d < c => d \in ({conn[i] : i \in Slots} \cup {sloc.client})

\* ftp_running, line 1479: netconn_accept with its 500 ms timeout.
SupAccept ==
    \/ Goto(Sup, "switch") /\ sloc' = sloc
    \/ /\ srv = "open"
       /\ sloc' = [sloc EXCEPT !.client = FreshConn, !.index = 0, !.seen = {}]
       /\ Goto(Sup, "scan_conn")

\* An ftp_stopping that leaves the server socket alone.
SupKeepServer ==
    /\ srv' = srv
    /\ Goto(Sup, "stop_set")
    /\ faults' = faults

\* ftp_stopping, lines 1508-1511: netconn_delete of the server socket.  The delete
\* of an open socket succeeds or fails; the delete of a null pointer fails; the
\* delete of a socket that was deleted before, or of the local that was never
\* assigned, is undefined: it returns either result.
SupDeleteServer ==
    /\ srv' = IF srv = "open" THEN "deleted" ELSE srv
    /\ \/ /\ srv # "null"
          /\ Goto(Sup, "stop_set")
          /\ faults' = faults
       \/ /\ srv # "null"
          /\ faults > 0
          /\ faults' = faults - 1
          /\ CallSetError(Sup, "SERVER_NETCONN_DELETE", "stop_set")
       \/ /\ srv = "null"
          /\ CallSetError(Sup, "SERVER_NETCONN_DELETE", "stop_set")
          /\ faults' = faults

\* ftp_server, line 1547: switch (FTP.status), and what the case does before its
\* next access to a shared field.
SupSwitch ==
    /\ At(Sup, "switch")
    /\ CASE status \in {"IDLE", "ERROR"} -> UNCHANGED <<pc, ecall, sloc, srv, faults>>
         [] status = "STARTING" -> Goto(Sup, "starting") /\ UNCHANGED <<sloc, srv, faults>>
         [] status = "RUNNING" -> SupAccept /\ UNCHANGED <<srv, faults>>
         [] OTHER -> /\ SupDeleteServer
                     /\ sloc' = [sloc EXCEPT !.from = status, !.index = 0, !.cnt = 0]
    /\ UNCHANGED <<status, errors, port, conn, busy, stop, wloc, apc, stopocc, sesvars, errpend>>

\* ftp_starting, lines 1457-1471: create, check the port, bind, listen.
\* sloc.att and sloc.codes keep how the last start ended: "ok", or "failed"
\* with the codes it called ftp_set_error with, and "ended" once FTP_ERROR
\* was stored after it.
SupStarting ==
    /\ At(Sup, "starting")
    /\ \/ /\ faults > 0
          /\ faults' = faults - 1
          /\ srv' = "null"
          /\ sloc' = [sloc EXCEPT !.att = "failed", !.codes = {"SERVER_NETCONN_NEW"}]
          /\ CallSetError(Sup, "SERVER_NETCONN_NEW", "switch")
       \/ /\ port = 0
          /\ faults > 0
          /\ faults' = faults - 1
          /\ srv' = "open"
          /\ sloc' = [sloc EXCEPT !.att = "failed", !.codes = {"PORT_IS_ZERO"}]
          /\ CallSetError(Sup, "PORT_IS_ZERO", "switch")
       \/ /\ port # 0
          /\ faults > 0
          /\ faults' = faults - 1
          /\ srv' = "open"
          /\ sloc' = [sloc EXCEPT !.att = "failed",
                                  !.codes = {"BIND_TO_PORT", "SERVER_NETCONN_LISTEN"}]
          /\ CallSetErrorOf(Sup, {"BIND_TO_PORT", "SERVER_NETCONN_LISTEN"}, "switch")
       \/ /\ port # 0
          /\ srv' = "open"
          /\ sloc' = [sloc EXCEPT !.att = "ok", !.codes = {}]
          /\ Goto(Sup, "start_run")
          /\ faults' = faults
    /\ UNCHANGED <<status, errors, port, conn, busy, stop, wloc, apc, stopocc, sesvars, errpend>>

\* ftp_starting, line 1472: FTP.status = FTP_RUNNING.
SupStartRun ==
    /\ At(Sup, "start_run")
    /\ status' = "RUNNING"
    /\ Goto(Sup, "switch")
    /\ UNCHANGED <<errors, port, conn, busy, stop, srv, sloc, wloc, apc, faults, stopocc, sesvars, errpend>>

\* A scan that gives up one slot early.
SupScanNextShort ==
    /\ sloc' = [sloc EXCEPT !.index = @ + 1, !.seen = @ \cup {sloc.index}]
    /\ Goto(Sup, IF sloc.index + 2 >= NbrClients THEN "reject" ELSE "scan_conn")

\* ftp_running, lines 1481-1486: slot sloc.index was found occupied; the loop goes to
\* the next slot or, after the last one, to the rejection.
SupScanNext ==
    /\ sloc' = [sloc EXCEPT !.index = @ + 1, !.seen = @ \cup {sloc.index}]
    /\ Goto(Sup, IF sloc.index + 1 >= NbrClients THEN "reject" ELSE "scan_conn")

\* ftp_running, line 1482: the load of ftp_links[index].ftp_connection.
SupScanConn ==
    /\ At(Sup, "scan_conn")
    /\ IF conn[sloc.index] = NULL
          THEN Goto(Sup, "scan_busy") /\ sloc' = sloc
          ELSE SupScanNext
    /\ UNCHANGED <<status, errors, port, conn, busy, stop, srv, wloc, apc, faults, stopocc, sesvars, errpend>>

\* A scan that takes a slot for free as soon as its ftp_connection is NULL.
SupScanBusyIgnored ==
    /\ At(Sup, "scan_busy")
    /\ Goto(Sup, "assign_stop")
    /\ sloc' = sloc
    /\ UNCHANGED <<status, errors, port, conn, busy, stop, srv, wloc, apc, faults, stopocc, sesvars, errpend>>

\* ftp_running, line 1482: the load of ftp_links[index].busy, after ftp_connection
\* was read as NULL.
SupScanBusy ==
    /\ At(Sup, "scan_busy")
    /\ IF busy[sloc.index]
          THEN SupScanNext
          ELSE Goto(Sup, "assign_stop") /\ sloc' = sloc
    /\ UNCHANGED <<status, errors, port, conn, busy, stop, srv, wloc, apc, faults, stopocc, sesvars, errpend>>

\* ftp_running, line 1501: ftp_links[index].stop = false.
SupAssignStop ==
    /\ At(Sup, "assign_stop")
    /\ stop' = [stop EXCEPT ![sloc.index] = FALSE]
    /\ Goto(Sup, "assign_conn")
    /\ UNCHANGED <<status, errors, port, conn, busy, srv, sloc, wloc, apc, faults, stopocc, sesvars, errpend>>

\* ftp_running, line 1502: ftp_links[index].ftp_connection = ftp_client_conn.
SupAssignConn ==
    /\ At(Sup, "assign_conn")
    /\ conn' = [conn EXCEPT ![sloc.index] = sloc.client]
    /\ sloc' = [SupLocalsReset EXCEPT !.client = NULL]
    /\ Goto(Sup, "switch")
    /\ UNCHANGED <<status, errors, port, busy, stop, srv, wloc, apc, faults, stopocc, sesvars, errpend>>

\* ftp_running, lines 1488-1494: netconn_write of no_conn_allowed.  The local
\* netconn_write returns an ftp_result_t (OK 0, TIMEOUT 1, ERROR 2) that the caller
\* compares with ERR_OK (0) and ERR_TIMEOUT (-3): TIMEOUT and ERROR both record
\* CLIENT_NETCONN_WRITE here, ERROR after netconn_write recorded it itself.
SupReject ==
    /\ At(Sup, "reject")
    /\ \/ /\ sloc' = [sloc EXCEPT !.rejw = [text |-> NoConnAllowed, res |-> "OK"]]
          /\ Goto(Sup, "rej_delete")
          /\ faults' = faults
       \/ /\ faults > 0
          /\ faults' = faults - 1
          /\ sloc' = [sloc EXCEPT !.rejw = [text |-> NoConnAllowed, res |-> "TIMEOUT"]]
          /\ CallSetError(Sup, "CLIENT_NETCONN_WRITE", "rej_delete")
       \/ /\ faults > 0
          /\ faults' = faults - 1
          /\ sloc' = [sloc EXCEPT !.rejw = [text |-> NoConnAllowed, res |-> "ERROR"]]
          /\ CallSetError(Sup, "CLIENT_NETCONN_WRITE", "rej_err2")
    /\ UNCHANGED <<status, errors, port, conn, busy, stop, srv, wloc, apc, stopocc, sesvars, errpend>>

\* ftp_running, lines 1491-1493, after netconn_write returned FTP_RES_ERROR.
SupRejectErr2 ==
    /\ At(Sup, "rej_err2")
    /\ CallSetError(Sup, "CLIENT_NETCONN_WRITE", "rej_delete")
    /\ UNCHANGED <<status, errors, port, conn, busy, stop, srv, sloc, wloc, apc, faults, stopocc, sesvars, errpend>>

\* ftp_running, lines 1495-1499: netconn_delete of the rejected connection.
SupRejectDelete ==
    /\ At(Sup, "rej_delete")
    /\ sloc' = [SupLocalsReset EXCEPT !.client = NULL, !.rejw = NoWrite]
    /\ \/ Goto(Sup, "switch") /\ faults' = faults
       \/ /\ faults > 0
          /\ faults' = faults - 1
          /\ CallSetError(Sup, "CLIENT_NETCONN_DELETE", "switch")
    /\ UNCHANGED <<status, errors, port, conn, busy, stop, srv, wloc, apc, stopocc, sesvars, errpend>>

\* ftp_stopping, lines 1512-1516: slot sloc.index is done; the loop goes to the next
\* slot or, after the last one, to the first poll.
SupStopSetNext ==
    IF sloc.index + 1 >= NbrClients
       THEN /\ Goto(Sup, "poll_scan")
            /\ sloc' = [sloc EXCEPT !.index = 0, !.cnt = 0]
            /\ stopocc' = {}
       ELSE /\ Goto(Sup, "stop_set")
            /\ sloc' = [sloc EXCEPT !.index = @ + 1]
            /\ stopocc' = stopocc

\* ftp_stopping, line 1513: the load of ftp_links[index].busy.
SupStopSetRead ==
    /\ At(Sup, "stop_set")
    /\ IF busy[sloc.index]
          THEN Goto(Sup, "stop_set_w") /\ sloc' = sloc /\ stopocc' = stopocc
          ELSE SupStopSetNext
    /\ UNCHANGED <<status, errors, port, conn, busy, stop, srv, wloc, apc, faults, sesvars, errpend>>

\* ftp_stopping, line 1514: ftp_links[index].stop = true.
SupStopSetWrite ==
    /\ At(Sup, "stop_set_w")
    /\ stop' = [stop EXCEPT ![sloc.index] = TRUE]
    /\ SupStopSetNext
    /\ UNCHANGED <<status, errors, port, conn, busy, srv, wloc, apc, faults, sesvars, errpend>>

\* ftp_stopping, lines 1518-1535: after each vTaskDelay(1000) the busy flags are read
\* one by one (the read of slot 0 follows the delay); cnt counts the polls that
\* found a busy slot.
SupPollScan ==
    /\ At(Sup, "poll_scan")
    /\ IF busy[sloc.index]
          THEN IF sloc.cnt + 1 < StopPolls
                  THEN /\ sloc' = [sloc EXCEPT !.index = 0, !.cnt = @ + 1]
                       /\ UNCHANGED <<pc, ecall>>
                  ELSE /\ faults > 0
                       /\ sloc' = [sloc EXCEPT !.index = 0, !.cnt = 0]
                       /\ CallSetError(Sup, "NOT_ALL_TASK_DISABLED", "stop_done")
          ELSE IF sloc.index + 1 >= NbrClients
                  THEN Goto(Sup, "stop_done") /\ sloc' = [sloc EXCEPT !.index = 0, !.cnt = 0]
                  ELSE sloc' = [sloc EXCEPT !.index = @ + 1] /\ UNCHANGED <<pc, ecall>>
    /\ faults' = IF busy[sloc.index] /\ sloc.cnt + 1 >= StopPolls THEN faults - 1 ELSE faults
    /\ UNCHANGED <<status, errors, port, conn, busy, stop, srv, wloc, apc, stopocc, sesvars, errpend>>

\* A STOPPING case that stores FTP_IDLE without looking at FTP.status again.
SupStopDoneNoCheck ==
    /\ At(Sup, "stop_done")
    /\ status' = IF sloc.from = "STOPPING" THEN "IDLE" ELSE "ERROR"
    /\ Goto(Sup, "switch")
    /\ sloc' = SupLocalsReset
    /\ errpend' = (errpend /\ status' # "ERROR")
    /\ UNCHANGED <<errors, port, conn, busy, stop, srv, wloc, apc, faults, stopocc, sesvars>>

\* ftp_server, lines 1559 and 1565: after ftp_stopping, the STOPPING case loads
\* FTP.status again, the ERROR_STOPPING case stores FTP_ERROR.
SupStopDone ==
    /\ At(Sup, "stop_done")
    /\ IF sloc.from = "STOPPING"
          THEN /\ status' = status
               /\ IF status = "STOPPING"
                     THEN Goto(Sup, "stop_idle") /\ sloc' = sloc
                     ELSE Goto(Sup, "switch") /\ sloc' = SupLocalsReset
          ELSE /\ status' = "ERROR"
               /\ Goto(Sup, "switch")
               /\ sloc' = [SupLocalsReset EXCEPT
                               !.att = IF @ = "failed" THEN "ended" ELSE @]
    /\ errpend' = (errpend /\ status' # "ERROR")
    /\ UNCHANGED <<errors, port, conn, busy, stop, srv, wloc, apc, faults, stopocc, sesvars>>

\* ftp_server, line 1560: FTP.status = FTP_IDLE.
SupStopIdle ==
    /\ At(Sup, "stop_idle")
    /\ status' = "IDLE"
    /\ sloc' = SupLocalsReset
    /\ Goto(Sup, "switch")
    /\ UNCHANGED <<errors, port, conn, busy, stop, srv, wloc, apc, faults, stopocc, sesvars, errpend>>


\* ----------------------------------------------------------------- workers
\* Seen from the supervisor a session is what it loads and stores in the shared
\* fields, the calls of ftp_set_error it makes and the way it ends; the session's
\* own state is the subject of SpecSession.

\* The error codes a command handler can record: ftp_send's netconn_write and the
\* data connection manager (pasv_con_open, pasv_con_close, data_con_open,
\* data_con_close).
HandlerErrorCodes == {"CLIENT_NETCONN_WRITE"} \cup ListenDataErrorCodes \cup DataErrorCodes

\* The five transport calls that end a session (ftp_service, lines 1387-1388:
\* pasv_con_close and data_con_close; ftp_task, line 1407: netconn_delete), in
\* order, with the code each records when it fails.
TeardownCodes ==
    <<"LISTEN_DATA_NETCONN_CLOSE", "LISTEN_DATA_NETCONN_DELETE",
      "DATA_NETCONN_CLOSE", "DATA_NETCONN_DELETE", "CLIENT_NETCONN_DELETE">>

TeardownPc == <<"td1", "td2", "td3", "td4", "td5", "clear_conn">>

\* Worker i, whose session ended the way `how`, is before teardown call k:
\* either none of the calls left fails, or call j is the next one that does.
Teardown(i, k, how) ==
    /\ wloc' = [wloc EXCEPT ![i] = how]
    /\ \/ /\ Goto(i, "clear_conn")
          /\ faults' = faults
       \/ /\ faults > 0
          /\ faults' = faults - 1
          /\ \E j \in k .. 5 : CallSetError(i, TeardownCodes[j], TeardownPc[j + 1])

\* A session end that records every end as a failed write.
EndSessionRecording(i, how) ==
    /\ wloc' = [wloc EXCEPT ![i] = how]
    /\ faults' = faults
    /\ CallSetError(i, "CLIENT_NETCONN_WRITE", "td1")

\* The session of worker i ends without a call of ftp_set_error: "stop" when
\* ftp_read_command saw the stop flag or an error status, "closed" otherwise.
EndSession(i, how) == Teardown(i, 1, how)

\* The session of worker i ends with ftp_set_error of one of `codes`.
EndSessionError(i, codes) ==
    /\ faults > 0
    /\ faults' = faults - 1
    /\ wloc' = [wloc EXCEPT ![i] = "error"]
    /\ CallSetErrorOf(i, codes, "td1")

\* netconn_write, lines 184-196, on the control connection: the session goes on
\* at `next` when the write succeeds; it ends when the write does not complete
\* within FTP_SERVER_WRITE_TIMEOUT_MS (FTP_RES_TIMEOUT, no error recorded) and
\* when netconn_write_partly fails (ftp_set_error(CLIENT_NETCONN_WRITE)).
ControlWrite(i, next) ==
    \/ Goto(i, next) /\ UNCHANGED <<wloc, faults>>
    \/ EndSession(i, "closed")
    \/ EndSessionError(i, {"CLIENT_NETCONN_WRITE"})

\* ftp_task, lines 1402-1403: the load of ftp_connection (else vTaskDelay(500))
\* and busy = true; then ftp_service resets the session fields (lines 1346-1365)
\* and sends the 220 banner (line 1368).  Only the worker itself stores NULL in
\* its ftp_connection, so the load and the store of busy are one step.
WorkerSetBusy(i) ==
    /\ At(i, "idle")
    /\ conn[i] # NULL
    /\ busy' = [busy EXCEPT ![i] = TRUE]
    /\ ControlWrite(i, "read")
    /\ UNCHANGED <<status, errors, port, conn, stop, srv, sloc, apc, stopocc, sesvars, errpend>>

\* ftp_read_command, line 267: the load of *stop at the start of a polling iteration.
WorkerReadStop(i) ==
    /\ At(i, "read")
    /\ IF stop[i]
          THEN EndSession(i, "stop")
          ELSE Goto(i, "read_status") /\ UNCHANGED <<wloc, faults>>
    /\ UNCHANGED <<status, errors, port, conn, busy, stop, srv, sloc, apc, stopocc, sesvars, errpend>>

\* ftp_service, lines 1375-1383: ftp_parse_command and ftp_process_command of one
\* command.  The session goes on when the handler returns FTP_RES_OK; it ends on
\* a parse error, on QUIT and on a handler result other than FTP_RES_OK (a reply
\* that timed out among them); a handler that recorded an error ends the session
\* (a failed reply) or goes on (the data connection manager).
SessionCommand(i) ==
    \/ Goto(i, "read") /\ UNCHANGED <<wloc, faults>>
    \/ EndSession(i, "closed")
    \/ EndSessionError(i, {"CLIENT_NETCONN_WRITE"})
    \/ EndSessionError(i, HandlerErrorCodes \ {"CLIENT_NETCONN_WRITE"})
    \/ /\ faults > 0
       /\ faults' = faults - 1
       /\ wloc' = wloc
       /\ CallSetErrorOf(i, HandlerErrorCodes \ {"CLIENT_NETCONN_WRITE"}, "read")

\* ftp_read_command, lines 272-291: netconn_recv.  A timeout starts the next polling
\* iteration or, as the FTP_SERVER_INACTIVE_CNT-th in a row, ends the session; any
\* other failure ends it; a received buffer is a command.
SessionRecv(i) ==
    \/ Goto(i, "read") /\ UNCHANGED <<wloc, faults>>
    \/ EndSession(i, "closed")
    \/ SessionCommand(i)

\* ftp_read_command, line 267: the two comparisons with FTP_ERROR and
\* FTP_ERROR_STOPPING.  The source writes them on FTP.stats, the statistics
\* record; they are read here as comparisons of FTP.status.
WorkerReadStatus(i) ==
    /\ At(i, "read_status")
    /\ IF status \in {"ERROR", "ERROR_STOPPING"}
          THEN EndSession(i, "stop")
          ELSE SessionRecv(i)
    /\ UNCHANGED <<status, errors, port, conn, busy, stop, srv, sloc, apc, stopocc, sesvars, errpend>>

\* The teardown of worker i goes on after a call of ftp_set_error.
WorkerTeardown(i, k) ==
    /\ At(i, TeardownPc[k])
    /\ Teardown(i, k, wloc[i])
    /\ UNCHANGED <<status, errors, port, conn, busy, stop, srv, sloc, apc, stopocc, sesvars, errpend>>

\* ftp_task, line 1411: ftp_connection = NULL.
WorkerClearConn(i) ==
    /\ At(i, "clear_conn")
    /\ conn' = [conn EXCEPT ![i] = NULL]
    /\ wloc' = [wloc EXCEPT ![i] = "none"]
    /\ Goto(i, "clear_busy")
    /\ UNCHANGED <<status, errors, port, busy, stop, srv, sloc, apc, faults, stopocc, sesvars, errpend>>

\* ftp_task, line 1414: busy = false.
WorkerClearBusy(i) ==
    /\ At(i, "clear_busy")
    /\ busy' = [busy EXCEPT ![i] = FALSE]
    /\ Goto(i, "idle")
    /\ UNCHANGED <<status, errors, port, conn, stop, srv, sloc, wloc, apc, faults, stopocc, sesvars, errpend>>

\* ------------------------------------------------------------ control API

\* The ports the application sets.
PortValues == {21}

\* ftp_start, line 1425: the load of FTP.status.
ApiStart ==
    /\ apc = "ready"
    /\ apc' = IF status \in {"IDLE", "ERROR"} THEN "start_store" ELSE "ready"
    /\ UNCHANGED <<status, errors, port, conn, busy, stop, pc, ecall, srv, sloc, wloc, faults, stopocc, sesvars, errpend>>

\* ftp_start, line 1426: FTP.status = FTP_STARTING.
ApiStartStore ==
    /\ apc = "start_store"
    /\ status' = "STARTING"
    /\ apc' = "ready"
    /\ UNCHANGED <<errors, port, conn, busy, stop, pc, ecall, srv, sloc, wloc, faults, stopocc, sesvars, errpend>>

\* ftp_stop, line 1434: the load of FTP.status.
ApiStop ==
    /\ apc = "ready"
    /\ apc' = IF status = "RUNNING" THEN "stop_store" ELSE "ready"
    /\ UNCHANGED <<status, errors, port, conn, busy, stop, pc, ecall, srv, sloc, wloc, faults, stopocc, sesvars, errpend>>

\* ftp_stop, line 1435: FTP.status = FTP_STOPPING.
ApiStopStore ==
    /\ apc = "stop_store"
    /\ status' = "STOPPING"
    /\ apc' = "ready"
    /\ stopocc' = IF status = "RUNNING" THEN {i \in Slots : conn[i] # NULL \/ busy[i]} ELSE {}
    /\ UNCHANGED <<errors, port, conn, busy, stop, pc, ecall, srv, sloc, wloc, faults, sesvars, errpend>>

\* ftp_clear_errors, line 1451: the load of FTP.status.
ApiClearErrors ==
    /\ apc = "ready"
    /\ apc' = IF status = "ERROR" THEN "clear_store" ELSE "ready"
    /\ UNCHANGED <<status, errors, port, conn, busy, stop, pc, ecall, srv, sloc, wloc, faults, stopocc, sesvars, errpend>>

\* ftp_clear_errors, line 1452: FTP.errors = 0.
ApiClearErrorsStore ==
    /\ apc = "clear_store"
    /\ errors' = {}
    /\ apc' = "ready"
    /\ UNCHANGED <<status, port, conn, busy, stop, pc, ecall, srv, sloc, wloc, faults, stopocc, sesvars, errpend>>

\* ftp_set_port, line 1643.
ApiSetPort ==
    /\ apc = "ready"
    /\ \E p \in PortValues : port' = p
    /\ UNCHANGED <<status, errors, conn, busy, stop, pc, ecall, srv, sloc, wloc, apc, faults, stopocc, sesvars, errpend>>

\* ------------------------------------------------------------------ system

Supervisor ==
    \/ SupSwitch \/ SupStarting \/ SupStartRun
    \/ SupScanConn \/ SupScanBusy \/ SupAssignStop \/ SupAssignConn
    \/ SupReject \/ SupRejectErr2 \/ SupRejectDelete
    \/ SupStopSetRead \/ SupStopSetWrite \/ SupPollScan
    \/ SupStopDone \/ SupStopIdle

Worker(i) ==
    \/ WorkerSetBusy(i)
    \/ WorkerReadStop(i) \/ WorkerReadStatus(i)
    \/ (\E k \in 1 .. 5 : WorkerTeardown(i, k))
    \/ WorkerClearConn(i) \/ WorkerClearBusy(i)

SetError(p) == SetErrorStatus(p) \/ SetErrorLoad(p) \/ SetErrorStore(p)

Api ==
    \/ ApiStart \/ ApiStartStore \/ ApiStop \/ ApiStopStore
    \/ ApiClearErrors \/ ApiClearErrorsStore \/ ApiSetPort

Next ==
    \/ Supervisor
    \/ \E i \in Slots : Worker(i)
    \/ \E p \in Procs : SetError(p)
    \/ Api

Spec == Init /\ [][Next]_vars


\* ------------------------------------------------------ ftp_cmd_stor's loop
\*
\* SpecStor follows one call of ftp_cmd_stor from FTP_F_OPEN to its return.
\* The bytes of the data connection are numbered in the order the client sent
\* them: byte k of the stream is the number k.  The handler's effects on the
\* session's fields belong to SpecSession.

\* The capacity of ftp_buff (FTP_BUF_SIZE, 1024 * FTP_BUF_SIZE_MULT), scaled down.
BufSize == 3

\* The longest segment (pbuf) of a chain: one more than the buffer holds.
MaxSegLen == BufSize + 1

\* Segments in one chain returned by netconn_recv_tcp_pbuf.
MaxChain == 2

\* Bytes the client sends in one transfer.
MaxStream == 6

\* ftp_result_t
Results == {"OK", "TIMEOUT", "ERROR"}

RECURSIVE SumSeq(_)
SumSeq(s) == IF s = <<>> THEN 0 ELSE Head(s) + SumSeq(Tail(s))

RECURSIVE Flatten(_)
Flatten(ws) == IF ws = <<>> THEN <<>> ELSE Head(ws).bytes \o Flatten(Tail(ws))

\* The chains of segment lengths that carry at most `room` bytes.
Chains(room) ==
    {c \in UNION {[1 .. n -> 1 .. MaxSegLen] : n \in 1 .. MaxChain} : SumSeq(c) <= room}

\* What FTP_F_WRITE of len bytes can do: fail, or succeed having written n <= len bytes.
WriteOutcomes(len) == {[err |-> TRUE, n |-> 0]} \cup {[err |-> FALSE, n |-> k] : k \in 0 .. len}

\* FTP_F_WRITE(&ftp->file, from, Len(bytes), &bytes_written) with outcome o:
\* len is the count the call asks for, bytes are the bytes the file got.
FileWrite(s, bytes, from, o) ==
    [s EXCEPT !.writes = Append(@, [bytes |-> SubSeq(bytes, 1, o.n), from |-> from,
                                    len |-> Len(bytes)]),
              !.wfail = @ \/ o.err \/ o.n # Len(bytes)]

\* Lines 1017-1024: close the file, close the data connection (outcome d), send 226
\* (outcome w).
StorFinish(s, d, w) ==
    LET t == [s EXCEPT !.ev = @ \o <<"f_close", "data_con_close">>, !.st = "done", !.chain = <<>>]
    IN  IF d # "OK" THEN [t EXCEPT !.res = "ERROR"]
        ELSE [t EXCEPT !.ev = Append(@, "226"), !.res = w]

\* Lines 981-985, 1000-1004, 1007-1011: the 451 or 426 reply could not be sent.
StorAbort(s) ==
    [s EXCEPT !.ev = @ \o <<"f_close", "data_con_close">>, !.st = "done", !.chain = <<>>,
              !.res = "ERROR"]

\* Lines 978-988: a write of the inner loop failed; the rest of the chain is freed.
StorWriteFailed(s, w451, d, w226) ==
    LET t == [s EXCEPT !.ev = Append(@, "451")]
    IN  IF w451 # "OK" THEN StorAbort(t) ELSE StorFinish(t, d, w226)

\* Lines 914-926: open the file, open the data connection, send the 150 reply.
StorStart ==
    /\ stor.st \in {"idle", "done"}
    /\ \/ \E w \in Results :
             stor' = [StorInit EXCEPT !.st = "done", !.res = w,
                         !.ev = <<"f_open_failed", "450">>]
       \/ \E w \in Results :
             stor' = [StorInit EXCEPT !.st = "done", !.res = w,
                         !.ev = <<"f_open", "data_con_open_failed", "f_close", "425">>]
       \/ \E w \in Results :
             stor' = [StorInit EXCEPT !.ev = <<"f_open", "data_con_open", "150">>,
                         !.st = IF w = "OK" THEN "recv" ELSE "done",
                         !.res = IF w = "OK" THEN "-" ELSE "ERROR"]
    /\ UNCHANGED <<svars, ses, last, rd>>

\* Line 932, con_err == ERR_OK: netconn_recv_tcp_pbuf hands over a chain of segments.
StorRecv ==
    /\ stor.st = "recv"
    /\ \E c \in Chains(MaxStream - stor.sent) : stor' = [stor EXCEPT !.st = "segs", !.chain = c]
    /\ UNCHANGED <<svars, ses, last, rd>>

\* Lines 975-976 after the last segment of a chain: rcvbuf_temp is NULL and
\* rcvbuf_temp->payload is read through it.  The value read is never used; the
\* read itself either goes through or faults, which halts the task.
StorChainEnd(s) ==
    IF s.chain # <<>> THEN {s}
    ELSE {[s EXCEPT !.st = "recv"], [s EXCEPT !.st = "fault"]}

\* The segment fills the buffer up to its last byte and is kept pending too.
SegmentFitsOrFills(buff_free_bytes, len) == buff_free_bytes >= len

\* Line 951: the segment is copied behind the pending bytes and leaves at
\* least one byte of the buffer free.
SegmentFits(buff_free_bytes, len) == buff_free_bytes > len

\* Lines 951-974 for a buffer of B bytes and a write that succeeds: the free
\* count after a segment of len <= B bytes, and the count of the write (0: none).
Coalesce(B, buff_free_bytes, len) ==
    IF SegmentFits(buff_free_bytes, len)
    THEN [free |-> buff_free_bytes - len, write |-> 0]
    ELSE LET rest_bytes_to_save == len - buff_free_bytes
         IN  [free |-> IF rest_bytes_to_save # 0 THEN B - rest_bytes_to_save ELSE B,
              write |-> B]

\* The counts of the writes of a transfer whose segments are segs, each of at
\* most B bytes, and whose writes succeed: lines 951-974 for every segment,
\* then the flush of lines 990-994.
RECURSIVE WriteCounts(_, _, _)
WriteCounts(B, buff_free_bytes, segs) ==
    IF segs = <<>>
    THEN IF buff_free_bytes # B THEN <<B - buff_free_bytes>> ELSE <<>>
    ELSE LET c == Coalesce(B, buff_free_bytes, Head(segs))
         IN  (IF c.write # 0 THEN <<c.write>> ELSE <<>>)
                 \o WriteCounts(B, c.free, Tail(segs))

\* Lines 938-976: one pass of the inner loop, for the segment rcvbuf_temp.
StorSegment ==
    /\ stor.st = "segs"
    /\ LET len == Head(stor.chain)
           payload == [k \in 1 .. len |-> stor.sent + k]
           buff_free_bytes == BufSize - Len(stor.buf)
           s0 == [stor EXCEPT !.sent = @ + len, !.chain = Tail(@)]
       IN  IF len > BufSize
           THEN \E o \in WriteOutcomes(len) :
                   LET s1 == FileWrite(s0, payload, "payload", o)
                   IN  IF o.err \/ o.n # len
                       THEN \E w451, d, w226 \in Results :
                               stor' = StorWriteFailed(s1, w451, d, w226)
                       ELSE stor' \in StorChainEnd(s1)
           ELSE IF SegmentFits(buff_free_bytes, len)
           THEN stor' \in StorChainEnd([s0 EXCEPT !.buf = @ \o payload])
           ELSE \E o \in WriteOutcomes(BufSize) :
                   LET full == stor.buf \o SubSeq(payload, 1, buff_free_bytes)
                       s1 == FileWrite(s0, full, "ftp_buff", o)
                   IN  IF o.err \/ o.n # BufSize
                       THEN \E w451, d, w226 \in Results :
                               stor' = StorWriteFailed(s1, w451, d, w226)
                       ELSE stor' \in StorChainEnd(
                               [s1 EXCEPT !.buf = SubSeq(payload, buff_free_bytes + 1, len)])
    /\ UNCHANGED <<svars, ses, last, rd>>

\* What netconn_recv_tcp_pbuf returns when it hands over no data.
RecvErrors == {"CLSD", "TIMEOUT", "RST"}

\* Lines 989-1014 and 1017-1024, con_err != ERR_OK: flush the pending bytes,
\* report, leave the loop and finish.
StorRecvEnd ==
    /\ stor.st = "recv"
    /\ \E con_err \in RecvErrors, o \in WriteOutcomes(Len(stor.buf)),
          w451, w426, d, w226 \in Results :
          LET s0 == [stor EXCEPT !.con_err = con_err]
              flush == stor.buf # <<>>
              s1 == IF flush THEN FileWrite(s0, stor.buf, "ftp_buff", o) ELSE s0
              file_err == flush /\ (o.err \/ o.n # Len(stor.buf))
              s2 == IF file_err THEN [s1 EXCEPT !.ev = Append(@, "451")] ELSE s1
              s3 == IF con_err # "CLSD" THEN [s2 EXCEPT !.ev = Append(@, "426")] ELSE s2
          IN  /\ ~flush => o = [err |-> FALSE, n |-> 0]
              /\ ~file_err => w451 = "OK"
              /\ con_err = "CLSD" => w426 = "OK"
              /\ stor' = IF file_err /\ w451 # "OK" THEN StorAbort(s2)
                         ELSE IF con_err # "CLSD" /\ w426 # "OK" THEN StorAbort(s3)
                         ELSE StorFinish(s3, d, w226)
    /\ UNCHANGED <<svars, ses, last, rd>>

NextStor == StorStart \/ StorRecv \/ StorSegment \/ StorRecvEnd

SpecStor == Init /\ [][NextStor]_vars

\* ------------------------------------------------------------- one session
\*
\* SpecSession follows the ftp_data_t of one worker through its sessions:
\* ftp_service's initialisation, one parsed command per step, and the end of
\* the session.  ftp_data_t belongs to one task, so a handler runs from its
\* call to its return without another task touching what it reads or writes.
\* The file system and the network answer every call either way.  A call of
\* ftp_set_error is recorded as an event of the command; what it does to
\* FTP.status and FTP.errors is Spec's part.

\* The size of the arrays path and path_rename (FTP_CWD_SIZE, _MAX_LFN + 8),
\* scaled down.  FTP_PARAM_SIZE is the same number, and ftp_parse_command
\* accepts parameters of at most FTP_PARAM_SIZE - 2 characters.
CwdSize == 5

\* Sessions one behaviour holds.
MaxSessions == 2

\* Directory entries listed, or blocks of a file read, in one transfer.
MaxItems == 1

\* Calls of the network, and reads and writes of the open file, that fail
\* within one command.
MaxCmdFaults == 1

Last(s) == s[Len(s)]

Range(s) == {s[k] : k \in 1 .. Len(s)}

Root == <<"/">>

\* Lines 485-492: clear characters from the end until the last one is '/'.
RECURSIVE StripToSlash(_)
StripToSlash(path) ==
    IF Last(path) = "/" THEN path ELSE StripToSlash(SubSeq(path, 1, Len(path) - 1))

path_up_a_level(path) ==
    IF "/" \notin Range(path) THEN path
    ELSE LET q == StripToSlash(path)
         IN  IF Len(q) > 1 THEN SubSeq(q, 1, Len(q) - 1) ELSE q

\* path_build: the string it leaves in current_path, its return value, and
\* whether strncat stored beyond the CwdSize bytes of the array.  strl is
\* strlen - 1, so the trailing '/' goes only from a string of 3 or more.
path_build(current_path, ftp_param) ==
    LET joined ==
            IF ftp_param = Root \/ ftp_param = <<>> THEN Root
            ELSE IF ftp_param = <<".", ".">> THEN path_up_a_level(current_path)
            ELSE IF ftp_param[1] # "/"
                 THEN (IF Last(current_path) # "/" THEN Append(current_path, "/")
                       ELSE current_path) \o ftp_param
            ELSE ftp_param
        strl == Len(joined) - 1
        built == IF joined[strl + 1] = "/" /\ strl > 1 THEN SubSeq(joined, 1, strl) ELSE joined
    IN  [path |-> built, ok |-> Len(built) < CwdSize, beyond |-> Len(joined) + 1 > CwdSize]

\* One call the handler makes: its name, a string argument (the reply code, the
\* error code, the connection), a path argument and a numeric argument.
Ev(e) == [e |-> e, a |-> "", path |-> <<>>, n |-> 0]

\* A handler in progress: the session s, the parameter, the calls made so
\* far, the result r of the last call and the handler's return value res.
\* `left` counts the failing calls the command can still meet.
Begin(s, param) ==
    [s |-> s, param |-> param, ev |-> <<>>, r |-> "-", res |-> "-", left |-> MaxCmdFaults]

Emit(h, ev) == [h EXCEPT !.ev = Append(@, ev)]

\* A call that can end with any of `results`.
Call(h, ev, results) == {[Emit(h, ev) EXCEPT !.r = r] : r \in results}

\* A call that ends with `ok`, or fails with one of `failures`.
Fallible(h, ev, ok, failures) ==
    {[Emit(h, ev) EXCEPT !.r = ok]}
        \cup (IF h.left > 0 THEN {[Emit(h, ev) EXCEPT !.r = r, !.left = @ - 1] : r \in failures}
              ELSE {})

\* Sequencing: F maps every outcome of the first call to the outcomes of the rest.
Bind(F) == UNION {F[h] : h \in DOMAIN F}

Return(h, res) == {[h EXCEPT !.res = res]}

ftp_set_error(h, code) == Emit(h, [Ev("ftp_set_error") EXCEPT !.a = code])

\* Lines 183-195: the wrapper of netconn_write, used for both connections.
netconn_write(h, ev) ==
    {IF x.r = "ERROR" THEN ftp_set_error(x, "CLIENT_NETCONN_WRITE") ELSE x :
        x \in Fallible(h, ev, "OK", {"TIMEOUT", "ERROR"})}

\* Lines 197-205: a reply on the control connection, named by its code.
ftp_send(h, code) == netconn_write(h, [Ev("ftp_send") EXCEPT !.a = code])

\* return (ftp_send(...))
ReturnSend(h, code) == {[x EXCEPT !.res = x.r] : x \in ftp_send(h, code)}

\* ftp_send(...); return (res)
SendReturn(h, code, res) == {[x EXCEPT !.res = res] : x \in ftp_send(h, code)}

\* A call of the file system with a path.
Fs(h, name, path) == Call(h, [Ev(name) EXCEPT !.path = path], {"FR_OK", "FR_ERR"})

\* A call of the netconn API on connection a.
Net(h, name, a) == Fallible(h, [Ev(name) EXCEPT !.a = a], "ERR_OK", {"ERR"})

FTP_IS_LOGGED_IN(h) == h.s.user = "LOGGED_IN"

\* A handler stored its path in an array: the string, and whether bytes went
\* beyond the array.
StorePath(h, b) == [h EXCEPT !.s.path = b.path, !.s.wild = @ \/ b.beyond]

UpALevel(h) == [h EXCEPT !.s.path = path_up_a_level(@)]

\* ------------------------------------------- functions for data connection

FTP_DATA_PORT == 55600

PORT_INCREMENT_OFFSET == 25

\* A data port that leaves the slot out.
PasvDataPortOfAnySlot(num, incremented) == (FTP_DATA_PORT + incremented) % 65536

\* Line 635: the value stored in ftp->data_port, a uint16_t.
PasvDataPort(num, incremented) ==
    (FTP_DATA_PORT + incremented + num * PORT_INCREMENT_OFFSET) % 65536

\* Lines 358-384.
pasv_con_open(h) ==
    IF h.s.listdataconn THEN {[h EXCEPT !.r = "OK"]}
    ELSE Bind([a \in Net(h, "netconn_new", "listdataconn") |->
         IF a.r # "ERR_OK"
         THEN {[ftp_set_error(a, "LISTEN_DATA_NETCONN_NEW") EXCEPT !.r = "ERROR"]}
         ELSE Bind([b \in Fallible([a EXCEPT !.s.listdataconn = TRUE],
                            [Ev("netconn_bind") EXCEPT !.a = "listdataconn", !.n = a.s.data_port],
                            "ERR_OK", {"ERR"}) |->
              IF b.r # "ERR_OK"
              THEN {[ftp_set_error(b, "LISTEN_DATA_NETCONN_BIND") EXCEPT !.r = "ERROR"]}
              ELSE Bind([c \in Net([b EXCEPT !.s.listen_port = a.s.data_port],
                                   "netconn_listen", "listdataconn") |->
                   IF c.r # "ERR_OK"
                   THEN {[ftp_set_error(c, "LISTEN_DATA_NETCONN_LISTEN") EXCEPT !.r = "ERROR"]}
                   ELSE {[c EXCEPT !.r = "OK"]}])])])

\* data_con_close without line 469, ftp->dataconn = NULL.
DataConCloseKeepsPointer(h) == {[h EXCEPT !.s.data_conn_mode = "NOT_SET", !.r = "OK"]}

\* Lines 386-403 and 452-471: pasv_con_close and data_con_close differ in the
\* pointer they close and in the error codes.
ConClose(h, which, close_code, delete_code) ==
    LET h0 == [h EXCEPT !.s.data_conn_mode = "NOT_SET"]
    IN  IF ~h0.s[which] THEN {[h0 EXCEPT !.r = "OK"]}
        ELSE Bind([c \in Net(h0, "netconn_close", which) |->
             Bind([d \in Net(IF c.r # "ERR_OK" THEN ftp_set_error(c, close_code) ELSE c,
                      "netconn_delete", which) |->
             {[(IF d.r # "ERR_OK" THEN ftp_set_error(d, delete_code) ELSE d)
                  EXCEPT !.s[which] = FALSE,
                         !.r = IF c.r # "ERR_OK" \/ d.r # "ERR_OK" THEN "ERROR" ELSE "OK"]}])])

pasv_con_close(h) ==
    {[x EXCEPT !.s.listen_port = 0] :
        x \in ConClose(h, "listdataconn", "LISTEN_DATA_NETCONN_CLOSE",
                       "LISTEN_DATA_NETCONN_DELETE")}

data_con_close(h) == ConClose(h, "dataconn", "DATA_NETCONN_CLOSE", "DATA_NETCONN_DELETE")

\* Lines 434, 445: netconn_delete(ftp->dataconn) of a connection that did not open.
DataConDrop(h) ==
    Bind([d \in Net(h, "netconn_delete", "dataconn") |->
    {[(IF d.r # "ERR_OK" THEN ftp_set_error(d, "DATA_NETCONN_DELETE") ELSE d)
         EXCEPT !.s.dataconn = FALSE, !.r = "ERROR"]}])

\* Lines 405-450.
data_con_open(h) ==
    IF h.s.data_conn_mode = "NOT_SET" THEN {[h EXCEPT !.r = "ERROR"]}
    ELSE IF h.s.data_conn_mode = "PASSIVE"
    THEN IF ~h.s.listdataconn THEN {[h EXCEPT !.r = "ERROR"]}
         ELSE Bind([a \in Net(h, "netconn_accept", "listdataconn") |->
              IF a.r # "ERR_OK" THEN {[a EXCEPT !.r = "ERROR"]}
              ELSE {[a EXCEPT !.s.dataconn = TRUE, !.r = "OK"]}])
    ELSE Bind([a \in Net(h, "netconn_new", "dataconn") |->
         IF a.r # "ERR_OK"
         THEN {[ftp_set_error(a, "DATA_NETCONN_NEW") EXCEPT !.s.dataconn = FALSE, !.r = "ERROR"]}
         ELSE Bind([b \in Net([a EXCEPT !.s.dataconn = TRUE], "netconn_bind", "dataconn") |->
              IF b.r # "ERR_OK" THEN DataConDrop(ftp_set_error(b, "DATA_NETCONN_BIND"))
              ELSE Bind([c \in Fallible(b, [Ev("netconn_connect") EXCEPT !.a = "dataconn",
                                                                  !.n = b.s.data_port],
                                 "ERR_OK", {"ERR"}) |->
                   IF c.r # "ERR_OK" THEN DataConDrop(c) ELSE {[c EXCEPT !.r = "OK"]}])])])

\* ------------------------------------------------------- command handlers
\*
\* A handler maps the handler-in-progress h to the set of ways it can return.

\* The guard every handler but USER, PASS and AUTH starts with.
NotLoggedIn(h) == Return(h, "OK")

ftp_cmd_pwd(h) ==
    IF ~FTP_IS_LOGGED_IN(h) THEN NotLoggedIn(h)
    ELSE {[x EXCEPT !.res = x.r] :
            x \in netconn_write(h, [Ev("ftp_send") EXCEPT !.a = "257", !.path = h.s.path])}

ftp_cmd_cwd(h) ==
    IF ~FTP_IS_LOGGED_IN(h) THEN NotLoggedIn(h)
    ELSE IF Len(h.param) = 0 THEN ReturnSend(h, "501")
    ELSE LET b == path_build(h.s.path, h.param)
             h1 == StorePath(h, b)
         IN  IF ~b.ok THEN ReturnSend(h1, "500")
             ELSE IF b.path = Root THEN ReturnSend(h1, "250")
             ELSE Bind([x \in Fs(h1, "f_stat", b.path) |->
                  IF x.r # "FR_OK" THEN ReturnSend(x, "550") ELSE ReturnSend(x, "250")])

ftp_cmd_cdup(h) ==
    IF ~FTP_IS_LOGGED_IN(h) THEN NotLoggedIn(h)
    ELSE ReturnSend([h EXCEPT !.s.path = Root], "250")

\* MODE, STRU, TYPE: 200 for the parameters the server knows, 504 for the others.
OptionCmd(h, known) ==
    IF ~FTP_IS_LOGGED_IN(h) THEN NotLoggedIn(h)
    ELSE IF h.param \in known THEN ReturnSend(h, "200") ELSE ReturnSend(h, "504")

ftp_cmd_mode(h) == OptionCmd(h, {<<"S">>})

ftp_cmd_stru(h) == OptionCmd(h, {<<"F">>})

ftp_cmd_type(h) == OptionCmd(h, {<<"A">>, <<"I">>})

\* Lines 648-649: the last two numbers of the 227 reply, data_port >> 8 and
\* data_port & 255, in one number.
PasvReply(data_port) == (data_port \div 256) * 65536 + (data_port % 256)

\* Lines 636-656: ftp_cmd_pasv once ftp->data_port is set.
PasvOpen(h) ==
    Bind([o \in pasv_con_open(h) |->
    IF o.r = "OK"
    THEN Bind([c \in data_con_close(o) |->
         IF c.r # "OK"
         THEN {[x EXCEPT !.res = x.r] : x \in pasv_con_close(c)}
         ELSE {[x EXCEPT !.res = x.r] :
                 x \in netconn_write([c EXCEPT !.s.data_conn_mode = "PASSIVE"],
                                     [Ev("ftp_send") EXCEPT !.a = "227",
                                                            !.n = PasvReply(c.s.data_port)])}])
    ELSE SendReturn([o EXCEPT !.s.data_conn_mode = "NOT_SET"], "425", "ERROR")])

\* ftp_cmd_pasv without line 635: data_port is what the last PORT left in it.
PasvKeepsDataPort(h) == IF ~FTP_IS_LOGGED_IN(h) THEN NotLoggedIn(h) ELSE PasvOpen(h)

\* Lines 628-663, FTP_USE_PASSIVE_MODE == 1.  data_port is a uint16_t.
ftp_cmd_pasv(h) ==
    IF ~FTP_IS_LOGGED_IN(h) THEN NotLoggedIn(h)
    ELSE PasvOpen([h EXCEPT !.s.data_port =
                               PasvDataPort(h.s.ftp_con_num, h.s.data_port_incremented)])

Digits == <<"0", "1", "2", "3", "4", "5", "6", "7", "8", "9">>

DigitValue(c) == (CHOOSE k \in 1 .. 10 : Digits[k] = c) - 1

\* atoi of a string of digits and other characters: the value of its leading digits.
RECURSIVE AtoiFrom(_, _)
AtoiFrom(str, acc) ==
    IF str = <<>> \/ Head(str) \notin Range(Digits) THEN acc
    ELSE AtoiFrom(Tail(str), 10 * acc + DigitValue(Head(str)))

atoi(str) == AtoiFrom(str, 0)

\* The positions of the commas of a parameter, in order.
Commas(str) == {k \in 1 .. Len(str) : str[k] = ","}

NthComma(str, n) == CHOOSE k \in Commas(str) : Cardinality({j \in Commas(str) : j <= k}) = n

After(str, k) == SubSeq(str, k + 1, Len(str))

\* Lines 665-713.  The loop leaves p at the 4th comma, or NULL when there are
\* fewer; the high byte is stored before the 5th comma is looked for.
ftp_cmd_port(h) ==
    IF ~FTP_IS_LOGGED_IN(h) THEN NotLoggedIn(h)
    ELSE Bind([c \in data_con_close(h) |->
         IF c.r # "OK" THEN Return(c, "ERROR")
         ELSE IF Len(c.param) = 0
         THEN ReturnSend([c EXCEPT !.s.data_conn_mode = "NOT_SET"], "501")
         ELSE LET n == Cardinality(Commas(c.param))
                  high == (256 * atoi(After(c.param, NthComma(c.param, 4)))) % 65536
                  low == atoi(After(c.param, NthComma(c.param, 5)))
              IN  IF n < 4
                  THEN ReturnSend([c EXCEPT !.s.data_conn_mode = "NOT_SET"], "501")
                  ELSE IF n = 4
                  THEN ReturnSend([c EXCEPT !.s.data_port = high,
                                            !.s.data_conn_mode = "NOT_SET"], "501")
                  ELSE ReturnSend([c EXCEPT !.s.data_port = (high + low) % 65536,
                                            !.s.data_conn_mode = "ACTIVE"], "200")])

\* NOOP, FEAT, SYST: one reply.
ReplyCmd(h, code) ==
    IF ~FTP_IS_LOGGED_IN(h) THEN NotLoggedIn(h) ELSE ReturnSend(h, code)

ftp_cmd_noop(h) == ReplyCmd(h, "200")

ftp_cmd_feat(h) == ReplyCmd(h, "211")

ftp_cmd_syst(h) == ReplyCmd(h, "215")

\* Lines 715-757 and 760-800: ftp_cmd_list (LIST, NLST) and ftp_cmd_mlsd have
\* one shape.  The loop ends when f_readdir fails or returns the empty name.
ListEnd(h) ==
    Bind([c \in data_con_close(Emit(h, Ev("f_closedir"))) |->
    IF c.r # "OK" THEN Return(c, "ERROR") ELSE ReturnSend(c, "226")])

RECURSIVE ListLoop(_, _)
ListLoop(h, k) ==
    Bind([e \in Call(h, Ev("f_readdir"), IF k > 0 THEN {"end", "entry"} ELSE {"end"}) |->
    IF e.r = "end" THEN ListEnd(e)
    ELSE Bind([w \in netconn_write(e, [Ev("netconn_write") EXCEPT !.a = "dataconn"]) |->
         IF w.r # "OK"
         THEN Bind([c \in data_con_close(Emit(w, Ev("f_closedir"))) |-> Return(c, "ERROR")])
         ELSE ListLoop(w, k - 1)])])

ftp_cmd_list(h) ==
    IF ~FTP_IS_LOGGED_IN(h) THEN NotLoggedIn(h)
    ELSE Bind([o \in Fs(h, "f_opendir", h.s.path) |->
         IF o.r # "FR_OK" THEN ReturnSend(o, "550")
         ELSE Bind([d \in data_con_open(o) |->
              IF d.r # "OK" THEN SendReturn(d, "425", "ERROR")
              ELSE Bind([a \in ftp_send(d, "150") |->
                   IF a.r # "OK" THEN Return(a, "ERROR") ELSE ListLoop(a, MaxItems)])])])

ftp_cmd_mlsd(h) == ftp_cmd_list(h)

\* The end of a transfer with the 226 reply sent before the data connection
\* is closed.
TransferEndReplyFirst(h) ==
    Bind([s \in ftp_send(UpALevel(Emit(h, Ev("f_close"))), "226") |->
    Bind([c \in data_con_close(s) |-> Return(c, IF c.r # "OK" THEN "ERROR" ELSE s.r)])])

\* The common end of RETR and STOR (lines 890-897, 1016-1024).
TransferEnd(h) ==
    Bind([c \in data_con_close(UpALevel(Emit(h, Ev("f_close")))) |->
    IF c.r # "OK" THEN Return(c, "ERROR") ELSE ReturnSend(c, "226")])

\* Their common way out when a 451 or 426 reply cannot be sent.
TransferAbort(h) ==
    Bind([c \in data_con_close(UpALevel(Emit(h, Ev("f_close")))) |-> Return(c, "ERROR")])

\* Lines 866-887.
RECURSIVE RetrLoop(_, _)
RetrLoop(h, k) ==
    Bind([r \in Fallible(h, Ev("f_read"), "eof", {"FR_ERR"})
             \cup (IF k > 0 THEN Call(h, Ev("f_read"), {"block"}) ELSE {}) |->
    IF r.r = "FR_ERR"
    THEN Bind([s \in ftp_send(r, "451") |->
         IF s.r # "OK" THEN TransferAbort(s) ELSE TransferEnd(s)])
    ELSE IF r.r = "eof" THEN TransferEnd(r)
    ELSE Bind([w \in netconn_write(r, [Ev("netconn_write") EXCEPT !.a = "dataconn"]) |->
         IF w.r # "OK"
         THEN Bind([s \in ftp_send(UpALevel(Emit(w, Ev("f_close"))), "426") |->
              Bind([c \in data_con_close(s) |-> Return(c, "ERROR")])])
         ELSE RetrLoop(w, k - 1)])])

ftp_cmd_retr(h) ==
    IF ~FTP_IS_LOGGED_IN(h) THEN NotLoggedIn(h)
    ELSE IF Len(h.param) = 0 THEN ReturnSend(h, "501")
    ELSE LET b == path_build(h.s.path, h.param)
             h1 == StorePath(h, b)
         IN  IF ~b.ok THEN ReturnSend(h1, "500")
             ELSE Bind([x \in Fs(h1, "f_stat", b.path) |->
                  IF x.r # "FR_OK" THEN ReturnSend(UpALevel(x), "550")
                  ELSE Bind([o \in Fs(x, "f_open", b.path) |->
                       IF o.r # "FR_OK" THEN ReturnSend(UpALevel(o), "450")
                       ELSE Bind([d \in data_con_open(o) |->
                            IF d.r # "OK"
                            THEN SendReturn(UpALevel(Emit(d, Ev("f_close"))), "425", "ERROR")
                            ELSE Bind([a \in ftp_send(d, "150") |->
                                 IF a.r # "OK" THEN Return(a, "ERROR")
                                 ELSE RetrLoop(a, MaxItems)])])])])

\* Lines 930-1014, by what the session sees of it: each chain received leads
\* to no file write, to writes that succeed or to one that fails; SpecStor
\* follows the bytes.
StorEnd(h, con_err) ==
    LET h1 == IF con_err # "ERR_CLSD" THEN ftp_send(h, "426") ELSE {[h EXCEPT !.r = "OK"]}
    IN  Bind([s \in h1 |-> IF s.r # "OK" THEN TransferAbort(s) ELSE TransferEnd(s)])

RECURSIVE StorLoop(_, _)
StorLoop(h, k) ==
    Bind([r \in Call(h, Ev("netconn_recv_tcp_pbuf"),
              IF k > 0 THEN {"ERR_OK", "ERR_CLSD", "ERR_TIMEOUT"} ELSE {"ERR_CLSD", "ERR_TIMEOUT"}) |->
    IF r.r = "ERR_OK"
    THEN StorLoop(r, k - 1)
         \cup Bind([w \in Fallible(r, Ev("f_write"), "FR_OK", {"FR_ERR"}) |->
              IF w.r = "FR_OK" THEN StorLoop(w, k - 1)
              ELSE Bind([s \in ftp_send(w, "451") |->
                   IF s.r # "OK" THEN TransferAbort(s) ELSE TransferEnd(s)])])
    ELSE StorEnd(r, r.r)
         \cup Bind([w \in Fallible(r, Ev("f_write"), "FR_OK", {"FR_ERR"}) |->
              IF w.r = "FR_OK" THEN StorEnd(w, r.r)
              ELSE Bind([s \in ftp_send(w, "451") |->
                   IF s.r # "OK" THEN TransferAbort(s) ELSE StorEnd(s, r.r)])])])

ftp_cmd_stor(h) ==
    IF ~FTP_IS_LOGGED_IN(h) THEN NotLoggedIn(h)
    ELSE IF Len(h.param) = 0 THEN ReturnSend(h, "501")
    ELSE LET b == path_build(h.s.path, h.param)
             h1 == StorePath(h, b)
         IN  IF ~b.ok THEN ReturnSend(h1, "500")
             ELSE Bind([o \in Fs(h1, "f_open", b.path) |->
                  IF o.r # "FR_OK" THEN ReturnSend(UpALevel(o), "450")
                  ELSE Bind([d \in data_con_open(o) |->
                       IF d.r # "OK" THEN ReturnSend(UpALevel(Emit(d, Ev("f_close"))), "425")
                       ELSE Bind([a \in ftp_send(d, "150") |->
                            IF a.r # "OK" THEN Return(a, "ERROR")
                            ELSE StorLoop(a, MaxItems)])])])

\* DELE (lines 806-829) and RMD (1053-1076): stat, unlink, and one level up on
\* every way out after path_build; they differ in one reply code.
UnlinkCmd(h, cant_delete) ==
    IF ~FTP_IS_LOGGED_IN(h) THEN NotLoggedIn(h)
    ELSE IF Len(h.param) = 0 THEN ReturnSend(h, "501")
    ELSE LET b == path_build(h.s.path, h.param)
             h1 == StorePath(h, b)
         IN  IF ~b.ok THEN ReturnSend(h1, "500")
             ELSE Bind([x \in Fs(h1, "f_stat", b.path) |->
                  IF x.r # "FR_OK" THEN ReturnSend(UpALevel(x), "550")
                  ELSE Bind([u \in Fs(x, "f_unlink", b.path) |->
                       IF u.r # "FR_OK" THEN ReturnSend(UpALevel(u), cant_delete)
                       ELSE ReturnSend(UpALevel(u), "250")])])

ftp_cmd_dele(h) == UnlinkCmd(h, "450")

ftp_cmd_rmd(h) == UnlinkCmd(h, "501")

\* Lines 1028-1051.
ftp_cmd_mkd(h) ==
    IF ~FTP_IS_LOGGED_IN(h) THEN NotLoggedIn(h)
    ELSE IF Len(h.param) = 0 THEN ReturnSend(h, "501")
    ELSE LET b == path_build(h.s.path, h.param)
             h1 == StorePath(h, b)
         IN  IF ~b.ok THEN ReturnSend(h1, "500")
             ELSE Bind([x \in Fs(h1, "f_stat", b.path) |->
                  IF x.r = "FR_OK" THEN ReturnSend(UpALevel(x), "521")
                  ELSE Bind([m \in Fs(x, "f_mkdir", b.path) |->
                       IF m.r # "FR_OK" THEN ReturnSend(UpALevel(m), "550")
                       ELSE ReturnSend(m, "257")])])

\* Lines 1078-1095.  path_rename is the array in front of path.
ftp_cmd_rnfr(h) ==
    IF ~FTP_IS_LOGGED_IN(h) THEN NotLoggedIn(h)
    ELSE IF Len(h.param) = 0 THEN ReturnSend(h, "501")
    ELSE LET b == path_build(h.s.path, h.param)
             h1 == [h EXCEPT !.s.path_rename = b.path, !.s.wild = @ \/ b.beyond]
         IN  IF ~b.ok THEN ReturnSend(h1, "500")
             ELSE Bind([x \in Fs(h1, "f_stat", b.path) |->
                  IF x.r # "FR_OK" THEN ReturnSend(x, "550") ELSE ReturnSend(x, "350")])

\* Lines 1097-1124.
ftp_cmd_rnto(h) ==
    IF ~FTP_IS_LOGGED_IN(h) THEN NotLoggedIn(h)
    ELSE IF Len(h.param) = 0 THEN ReturnSend(h, "501")
    ELSE IF Len(h.s.path_rename) = 0 THEN ReturnSend(h, "503")
    ELSE LET b == path_build(h.s.path, h.param)
             h1 == StorePath(h, b)
         IN  IF ~b.ok THEN ReturnSend(h1, "500")
             ELSE Bind([x \in Fs(h1, "f_stat", b.path) |->
                  IF x.r = "FR_OK" THEN ReturnSend(UpALevel(x), "553")
                  ELSE Bind([m \in Call(x, [Ev("f_rename") EXCEPT !.a = "path_rename", !.path = b.path],
                                 {"FR_OK", "FR_ERR"}) |->
                       IF m.r # "FR_OK" THEN ReturnSend(UpALevel(m), "451")
                       ELSE ReturnSend(UpALevel(m), "250")])])

\* x | y on the bits 0..15.
RECURSIVE BitOr(_, _, _)
BitOr(x, y, bits) ==
    IF bits = 0 THEN 0
    ELSE (IF x % 2 = 1 \/ y % 2 = 1 THEN 1 ELSE 0) + 2 * BitOr(x \div 2, y \div 2, bits - 1)

\* The decimal digits of a natural number, without leading zeros.
RECURSIVE Decimal(_)
Decimal(n) ==
    IF n < 10 THEN <<Digits[n + 1]>>
    ELSE Decimal(n \div 10) \o <<Digits[(n % 10) + 1]>>

\* The conversion %0<width>d of snprintf: at least width characters, padded
\* with zeros on the left, and every digit of a longer number.
PrintD(n, width) ==
    LET d == Decimal(n)
    IN  IF Len(d) >= width THEN d ELSE [k \in 1 .. (width - Len(d)) |-> "0"] \o d

\* The encoder with the seconds field printed as stored, not doubled.
DateTimeStrHalfSeconds(date, time) ==
    PrintD((date \div 512) + 1980, 4) \o PrintD((date \div 32) % 16, 2)
        \o PrintD(date % 32, 2) \o PrintD(time \div 2048, 2)
        \o PrintD((time \div 32) % 64, 2) \o PrintD(time % 32, 2)

\* Lines 216-220: YYYYMMDDHHMMSS of a FAT date and time; the masks and shifts
\* are written as divisions of the 16-bit values.
data_time_to_str(date, time) ==
    PrintD((date \div 512) + 1980, 4) \o PrintD((date \div 32) % 16, 2)
        \o PrintD(date % 32, 2) \o PrintD(time \div 2048, 2)
        \o PrintD((time \div 32) % 64, 2) \o PrintD((time % 32) * 2, 2)

\* Lines 231-254: 0 with *pdate and *ptime as they were (date, time), or 15 with
\* the FAT date and time of the 14 digits stored in them.
date_time_get(parameters, date, time) ==
    IF Len(parameters) < 15 \/ parameters[15] # " "
          \/ \E k \in 1 .. 14 : parameters[k] \notin Range(Digits)
    THEN [len |-> 0, date |-> date, time |-> time]
    ELSE LET num(a, z) == atoi(SubSeq(parameters, a, z))
         IN  [len |-> 15,
              time |-> BitOr(BitOr(num(13, 14) \div 2, (num(11, 12) * 32) % 65536, 16),
                             (num(9, 10) * 2048) % 65536, 16),
              date |-> BitOr(BitOr(num(7, 8), (num(5, 6) * 32) % 65536, 16),
                             ((num(1, 4) - 1980) * 512) % 65536, 16)]

\* Lines 1141-1174.  f_utime gets ftp->path after path_up_a_level.
ftp_cmd_mdtm(h) ==
    IF ~FTP_IS_LOGGED_IN(h) THEN NotLoggedIn(h)
    ELSE LET g == date_time_get(h.param, 0, 0)
             fname == After(h.param, g.len)
             b == path_build(h.s.path, fname)
             h1 == StorePath(h, b)
         IN  IF Len(fname) = 0 THEN ReturnSend(h, "501")
             ELSE IF ~b.ok THEN ReturnSend(h1, "500")
             ELSE Bind([x \in Fs(h1, "f_stat", b.path) |->
                  IF x.r # "FR_OK" THEN ReturnSend(UpALevel(x), "550")
                  ELSE IF g.len = 0 THEN ReturnSend(UpALevel(x), "213")
                  ELSE Bind([u \in Call(UpALevel(x),
                                 [Ev("f_utime") EXCEPT !.path = path_up_a_level(b.path),
                                                       !.n = g.date * 65536 + g.time],
                                 {"FR_OK", "FR_ERR"}) |->
                       IF u.r = "FR_OK" THEN ReturnSend(u, "200") ELSE ReturnSend(u, "550")])])

\* A handler that ends without a return value: ftp_cmd_size, whose return
\* statements have no expression, and the void functions ftp_cmd_site,
\* ftp_cmd_stat, ftp_cmd_auth, ftp_cmd_user and ftp_cmd_pass, which
\* ftp_process_command calls through a pointer to a function returning
\* ftp_result_t.  The value the caller reads is not determined by the source.
ReturnNothing(H) == {[x EXCEPT !.res = res] : x \in H, res \in Results}

\* Lines 1176-1201.  A directory is answered like a missing file.
ftp_cmd_size(h) ==
    IF ~FTP_IS_LOGGED_IN(h) THEN ReturnNothing({h})
    ELSE IF Len(h.param) = 0 THEN ReturnNothing(ftp_send(h, "501"))
    ELSE LET b == path_build(h.s.path, h.param)
             h1 == StorePath(h, b)
         IN  IF ~b.ok THEN ReturnNothing(ftp_send(h1, "500"))
             ELSE ReturnNothing(
                  Bind([x \in Call(h1, [Ev("f_stat") EXCEPT !.path = b.path], {"FR_OK", "AM_DIR", "FR_ERR"}) |->
                  IF x.r # "FR_OK" THEN {UpALevel(y) : y \in ftp_send(x, "550")}
                  ELSE {UpALevel(Emit(y, Ev("f_close"))) : y \in ftp_send(x, "213")}]))

\* Lines 1203-1216.
ftp_cmd_site(h) ==
    IF ~FTP_IS_LOGGED_IN(h) THEN ReturnNothing({h})
    ELSE IF h.param = <<"F", "R", "E", "E">>
    THEN ReturnNothing(ftp_send(Emit(h, Ev("f_getfree")), "211"))
    ELSE ReturnNothing(ftp_send(h, "550"))

\* Lines 1218-1226.
ftp_cmd_stat(h) ==
    IF ~FTP_IS_LOGGED_IN(h) THEN ReturnNothing({h}) ELSE ReturnNothing(ftp_send(h, "221"))

\* Lines 1228-1231.
ftp_cmd_auth(h) == ReturnNothing(ftp_send(h, "504"))

ftp_user_name == <<"u", "s", "e", "r">>

ftp_user_pass == <<"p", "a", "s", "s">>

\* Lines 1233-1247.
ftp_cmd_user(h) ==
    IF h.param = ftp_user_name
    THEN ReturnNothing({[x EXCEPT !.s.user = "USER_NO_PASS"] : x \in ftp_send(h, "331")})
    ELSE ReturnNothing(ftp_send(h, "530 Username not known"))

\* A PASS handler that does not look at the login state.
PassIgnoresState(h) ==
    IF h.param = ftp_user_pass
    THEN ReturnNothing({[x EXCEPT !.s.user = "LOGGED_IN"] : x \in ftp_send(h, "230")})
    ELSE ReturnNothing(ftp_send(h, "530 Password not correct"))

\* Lines 1249-1268.
ftp_cmd_pass(h) ==
    IF h.s.user = "NONE" THEN ReturnNothing(ftp_send(h, "530 User not specified"))
    ELSE IF h.param = ftp_user_pass
    THEN ReturnNothing({[x EXCEPT !.s.user = "LOGGED_IN"] : x \in ftp_send(h, "230")})
    ELSE ReturnNothing(ftp_send(h, "530 Password not correct"))

\* ------------------------------------------------- ftp_service, one step each

\* The parameters the client sends with the commands that take a path.
PathParams ==
    {<<>>, <<"/">>, <<".", ".">>, <<"a">>, <<"a", "/">>, <<"/", "/">>, <<"/", "a">>,
     <<"a", "/", "a">>}

\* "20000101000000 a": a time stamp, a space and a name.
StampedName ==
    <<"2", "0", "0", "0", "0", "1", "0", "1", "0", "0", "0", "0", "0", "0", " ", "a">>

\* "1,1,1,1,1,2", "1,1,1,1,1" and "1,1".
PortParams ==
    {<<>>, <<"1", ",", "1", ",", "1", ",", "1", ",", "1", ",", "2">>,
     <<"1", ",", "1", ",", "1", ",", "1", ",", "1">>, <<"1", ",", "1">>}

NoParam == {<<>>}

\* Lines 1343-1390 up to the loop: the fields are reset, data_port_incremented
\* advances, the welcome line is sent.  When it cannot be sent the loop is skipped.
ServiceBegin ==
    /\ ses.st = "closed"
    /\ \E x \in ftp_send(Begin([ses EXCEPT !.path = Root, !.path_rename = <<>>,
                                           !.listdataconn = FALSE, !.dataconn = FALSE,
                                           !.listen_port = 0,
                                           !.data_port = 0, !.data_conn_mode = "NOT_SET",
                                           !.user = "NONE", !.wild = FALSE,
                                           !.data_port_incremented =
                                               (@ + 1) % PORT_INCREMENT_OFFSET], <<>>), "220") :
          /\ ses' = [x.s EXCEPT !.st = "done"]
          /\ last' = [verb |-> "ftp_service", param |-> <<>>, ev |-> x.ev, res |-> x.r]
    /\ UNCHANGED <<svars, stor, rd>>

\* ftp_service is entered in one of the first MaxSessions sessions of the slot.
SessionBegin == ses.data_port_incremented < MaxSessions /\ ServiceBegin

\* A loop that goes on after QUIT.
SessionLoopIgnoresQuit ==
    /\ ses.st = "done"
    /\ ses' = [ses EXCEPT !.st = IF last.res = "OK" THEN "open" ELSE "leaving"]
    /\ last' = NoCommand
    /\ UNCHANGED <<svars, stor, rd>>

\* Lines 1372-1386: after the welcome line or a command, leave the loop when
\* the result is not FTP_RES_OK or the command was QUIT, and wait for the next
\* command otherwise; ftp_read_command clears command and parameters.
SessionLoop ==
    /\ ses.st = "done"
    /\ ses' = [ses EXCEPT !.st = IF last.res = "OK" /\ last.verb # "QUIT" THEN "open"
                                 ELSE "leaving"]
    /\ last' = NoCommand
    /\ UNCHANGED <<svars, stor, rd>>

FTP_CMD_SIZE == 5

\* Line 38: FTP_PARAM_SIZE is _MAX_LFN + 8, as FTP_CWD_SIZE is.
FTP_PARAM_SIZE == CwdSize

\* isalpha, for the characters the lines are made of.
isalpha(c) == c \in {"C", "W", "D", "a"}

\* pbuf[k] of the C code, for k inside the received data.
CharAt(pbuf, k) == pbuf[k + 1]

\* Lines 304-310: the index the do-while loop ends with.
RECURSIVE VerbEnd(_, _)
VerbEnd(pbuf, i) ==
    IF ~isalpha(CharAt(pbuf, i)) THEN i
    ELSE IF i + 1 < Len(pbuf) /\ i + 1 < FTP_CMD_SIZE - 1 THEN VerbEnd(pbuf, i + 1)
    ELSE i + 1

\* Lines 312-314.
RECURSIVE SkipSpaces(_, _)
SkipSpaces(pbuf, i) == IF CharAt(pbuf, i) = " " THEN SkipSpaces(pbuf, i + 1) ELSE i

\* Lines 315-317.
RECURSIVE ParamLen(_, _, _)
ParamLen(pbuf, i, ret) ==
    IF CharAt(pbuf, i + ret) \notin {"\n", "\r"} /\ i + ret < Len(pbuf)
    THEN ParamLen(pbuf, i, ret + 1)
    ELSE ret

\* Lines 295-326, on command and parameters cleared by lines 338-339: the
\* return value, the command and the parameters.
ftp_parse_command_check(pbuf) ==
    IF Len(pbuf) = 0 THEN [ret |-> 0, command |-> <<>>, parameters |-> <<>>]
    ELSE LET v == VerbEnd(pbuf, 0)
             command == SubSeq(pbuf, 1, v)
         IN  IF CharAt(pbuf, v) # " "
             THEN [ret |-> 0, command |-> command, parameters |-> <<>>]
             ELSE LET i == SkipSpaces(pbuf, v)
                      ret == ParamLen(pbuf, i, 0)
                  IN  IF ret + 1 >= FTP_PARAM_SIZE
                      THEN [ret |-> -1, command |-> command, parameters |-> <<>>]
                      ELSE [ret |-> ret, command |-> command,
                            parameters |-> SubSeq(pbuf, i + 1, i + ret)]

\* Lines 337-350.
ftp_parse_command(pbuf) ==
    IF ftp_parse_command_check(pbuf).ret < 0 THEN "ERROR" ELSE "OK"

\* The bytes after the verb and the blank of a line, up to its line end.
SentParam(pbuf) == SubSeq(pbuf, 5, Len(pbuf) - 2)

\* "CWD " with a parameter of 0 to FTP_PARAM_SIZE + 1 letters and the line end.
CwdLines ==
    {<<"C", "W", "D", " ">> \o [k \in 1 .. n |-> "a"] \o <<"\r", "\n">> :
        n \in 0 .. FTP_PARAM_SIZE + 1}

\* Lines 1375-1377: ftp_parse_command does not return FTP_RES_OK for the line
\* that was read, and the loop is left.
SessionParseFails ==
    /\ ses.st = "open"
    /\ \E pbuf \in CwdLines :
          /\ ftp_parse_command(pbuf) # "OK"
          /\ last' = [verb |-> "ftp_parse_command", param |-> SentParam(pbuf),
                      ev |-> <<>>, res |-> ftp_parse_command(pbuf)]
    /\ ses' = [ses EXCEPT !.st = "leaving"]
    /\ UNCHANGED <<svars, stor, rd>>

\* Lines 1372-1374: ftp_read_command does not return FTP_RES_OK and the loop
\* is left.
SessionReadFails ==
    /\ ses.st = "open"
    /\ ses' = [ses EXCEPT !.st = "leaving"]
    /\ last' = NoCommand
    /\ UNCHANGED <<svars, stor, rd>>

\* ftp_task, lines 1407-1414, after ftp_service has returned: the control
\* connection is deleted, ftp_connection is cleared, the application is told
\* and busy is cleared.
TaskEnd(h) ==
    Bind([d \in Net(h, "netconn_delete", "ctrlconn") |->
    {Emit(Emit(Emit(IF d.r # "ERR_OK" THEN ftp_set_error(d, "CLIENT_NETCONN_DELETE") ELSE d,
                    Ev("ftp_connection = NULL")),
               Ev("FTP_DISCONNECTED_CALLBACK")),
          Ev("busy = false"))}])

\* A session end that leaves the data connection to the next session.
SessionEndKeepsData ==
    /\ ses.st = "leaving"
    /\ \E x \in Bind([c \in pasv_con_close(Begin(ses, <<>>)) |-> TaskEnd(c)]) :
          /\ ses' = [x.s EXCEPT !.st = "closed"]
          /\ last' = [verb |-> "teardown", param |-> <<>>, ev |-> x.ev, res |-> "-"]
    /\ UNCHANGED <<svars, stor, rd>>

\* ftp_service, lines 1387-1389, and the rest of the pass of ftp_task's loop.
SessionEnd ==
    /\ ses.st = "leaving"
    /\ \E x \in Bind([c \in pasv_con_close(Begin(ses, <<>>)) |->
                         Bind([d \in data_con_close(c) |-> TaskEnd(d)])]) :
          /\ ses' = [x.s EXCEPT !.st = "closed"]
          /\ last' = [verb |-> "teardown", param |-> <<>>, ev |-> x.ev, res |-> "-"]
    /\ UNCHANGED <<svars, stor, rd>>

\* Lines 1312-1324 and 1380-1385: the table entry of `verb` is called between
\* the two callbacks.
Cmd(verb, outcomes) ==
    /\ ses.st = "open"
    /\ ~ses.wild
    /\ \E param \in DOMAIN outcomes : \E x \in outcomes[param] :
          /\ ses' = [x.s EXCEPT !.st = "done"]
          /\ last' = [verb |-> verb, param |-> param, res |-> x.res,
                      ev |-> <<Ev("FTP_CMD_BEGIN_CALLBACK")>> \o x.ev
                                \o <<Ev("FTP_CMD_END_CALLBACK")>>]
    /\ UNCHANGED <<svars, stor, rd>>

\* Lines 1309-1312.
CmdQuit ==
    /\ ses.st = "open"
    /\ ~ses.wild
    /\ \E x \in ReturnSend(Begin(ses, <<>>), "221") :
          /\ ses' = [x.s EXCEPT !.st = "done"]
          /\ last' = [verb |-> "QUIT", param |-> <<>>, ev |-> x.ev, res |-> x.res]
    /\ UNCHANGED <<svars, stor, rd>>

\* Lines 1325-1327: no table entry.
CmdUnknown ==
    /\ ses.st = "open"
    /\ ~ses.wild
    /\ \E x \in ReturnSend(Begin(ses, <<>>), "500 Unknown command") :
          /\ ses' = [x.s EXCEPT !.st = "done"]
          /\ last' = [verb |-> "XXXX", param |-> <<>>, ev |-> x.ev, res |-> x.res]
    /\ UNCHANGED <<svars, stor, rd>>

\* ftpd_commands, lines 1270-1300: every entry of the table with the
\* parameters the client sends with it.
NextSession ==
    \/ SessionBegin \/ SessionLoop \/ SessionReadFails \/ SessionParseFails \/ SessionEnd
    \/ CmdQuit \/ CmdUnknown
    \/ Cmd("PWD", [p \in NoParam |-> ftp_cmd_pwd(Begin(ses, p))])
    \/ Cmd("CWD", [p \in PathParams |-> ftp_cmd_cwd(Begin(ses, p))])
    \/ Cmd("CDUP", [p \in NoParam |-> ftp_cmd_cdup(Begin(ses, p))])
    \/ Cmd("MODE", [p \in {<<>>, <<"S">>} |-> ftp_cmd_mode(Begin(ses, p))])
    \/ Cmd("STRU", [p \in {<<>>, <<"F">>} |-> ftp_cmd_stru(Begin(ses, p))])
    \/ Cmd("TYPE", [p \in {<<>>, <<"A">>, <<"I">>} |-> ftp_cmd_type(Begin(ses, p))])
    \/ Cmd("PASV", [p \in NoParam |-> ftp_cmd_pasv(Begin(ses, p))])
    \/ Cmd("PORT", [p \in PortParams |-> ftp_cmd_port(Begin(ses, p))])
    \/ Cmd("NLST", [p \in NoParam |-> ftp_cmd_list(Begin(ses, p))])
    \/ Cmd("LIST", [p \in NoParam |-> ftp_cmd_list(Begin(ses, p))])
    \/ Cmd("MLSD", [p \in NoParam |-> ftp_cmd_mlsd(Begin(ses, p))])
    \/ Cmd("DELE", [p \in PathParams |-> ftp_cmd_dele(Begin(ses, p))])
    \/ Cmd("NOOP", [p \in NoParam |-> ftp_cmd_noop(Begin(ses, p))])
    \/ Cmd("RETR", [p \in PathParams |-> ftp_cmd_retr(Begin(ses, p))])
    \/ Cmd("STOR", [p \in PathParams |-> ftp_cmd_stor(Begin(ses, p))])
    \/ Cmd("MKD", [p \in PathParams |-> ftp_cmd_mkd(Begin(ses, p))])
    \/ Cmd("RMD", [p \in PathParams |-> ftp_cmd_rmd(Begin(ses, p))])
    \/ Cmd("RNFR", [p \in PathParams |-> ftp_cmd_rnfr(Begin(ses, p))])
    \/ Cmd("RNTO", [p \in PathParams |-> ftp_cmd_rnto(Begin(ses, p))])
    \/ Cmd("FEAT", [p \in NoParam |-> ftp_cmd_feat(Begin(ses, p))])
    \/ Cmd("MDTM", [p \in PathParams \cup {StampedName} |-> ftp_cmd_mdtm(Begin(ses, p))])
    \/ Cmd("SIZE", [p \in PathParams |-> ftp_cmd_size(Begin(ses, p))])
    \/ Cmd("SITE", [p \in {<<>>, <<"F", "R", "E", "E">>} |-> ftp_cmd_site(Begin(ses, p))])
    \/ Cmd("STAT", [p \in NoParam |-> ftp_cmd_stat(Begin(ses, p))])
    \/ Cmd("SYST", [p \in NoParam |-> ftp_cmd_syst(Begin(ses, p))])
    \/ Cmd("AUTH", [p \in NoParam |-> ftp_cmd_auth(Begin(ses, p))])
    \/ Cmd("USER", [p \in {ftp_user_name, <<>>, <<"a">>, <<"u", "s", "e">>, ftp_user_pass} |-> ftp_cmd_user(Begin(ses, p))])
    \/ Cmd("PASS", [p \in {ftp_user_pass, <<>>, <<"a">>, <<"p", "a", "s">>, ftp_user_name} |-> ftp_cmd_pass(Begin(ses, p))])

SpecSession == Init /\ [][NextSession]_vars

\* ----------------------------------------- the passive port of every slot

\* Worker `num` (ftp_task, line 1398) between two sessions, after any number
\* of sessions: data_port_incremented is any value line 1358 leaves.
InitPorts ==
    /\ ServerInit
    /\ \E num \in Slots, incremented \in 0 .. PORT_INCREMENT_OFFSET - 1 :
          ses = [SesInit EXCEPT !.ftp_con_num = num, !.data_port_incremented = incremented]
    /\ last = NoCommand
    /\ stor = StorInit
    /\ rd = RdInit

\* Sessions of a client that logs in and sends PASV and PORT.
NextPorts ==
    \/ ServiceBegin \/ SessionLoop \/ SessionReadFails \/ SessionEnd
    \/ Cmd("USER", [p \in {ftp_user_name} |-> ftp_cmd_user(Begin(ses, p))])
    \/ Cmd("PASS", [p \in {ftp_user_pass} |-> ftp_cmd_pass(Begin(ses, p))])
    \/ Cmd("PASV", [p \in NoParam |-> ftp_cmd_pasv(Begin(ses, p))])
    \/ Cmd("PORT", [p \in PortParams |-> ftp_cmd_port(Begin(ses, p))])

SpecPorts == InitPorts /\ [][NextPorts]_vars

\* ------------------------------------------------------ path_build alone

\* The working directories a session starts the calls from.
Cwds ==
    {Root, <<"/", "a">>, <<"/", "x">>, <<"/", "a", "/", "b">>, <<"/", "x", "/", "y">>,
     <<"/", "a", "b">>}

\* The parameters path_build is called with.
BuildParams ==
    {<<>>, <<"/">>, <<".", ".">>, <<"c">>, <<"b">>, <<"c", "/">>, <<"b", "/", "c">>,
     <<"/", "/">>, <<"/", "x">>, <<"/", "x", "/">>, <<"/", "x", "/", "y">>}

\* A logged-in session between two commands, in one of the directories.
InitPath ==
    /\ ServerInit
    /\ \E path \in Cwds :
          ses = [SesInit EXCEPT !.st = "open", !.user = "LOGGED_IN", !.path = path,
                                !.data_port_incremented = 1]
    /\ last = NoCommand
    /\ stor = StorInit
    /\ rd = RdInit

\* The call path_build(ftp->path, ftp->parameters) of a handler, lines 512-550,
\* with a parameter that strncat and strncpy keep inside the array.
PathBuildCall ==
    /\ ses.st = "open"
    /\ \E ftp_param \in BuildParams :
          LET b == path_build(ses.path, ftp_param)
          IN  /\ ~b.beyond
              /\ ses' = [ses EXCEPT !.path = b.path,
                                    !.st = IF b.ok THEN "open" ELSE "done"]
              /\ last' = [verb |-> "path_build", param |-> ftp_param,
                          ev |-> <<[Ev("path_build") EXCEPT !.path = ses.path]>>,
                          res |-> IF b.ok THEN "1" ELSE "0"]
    /\ UNCHANGED <<svars, stor, rd>>

NextPath == PathBuildCall

SpecPath == InitPath /\ [][NextPath]_vars


\* FAT dates and times: the year since 1980 in bits 9..15, the month in bits
\* 5..8, the day in bits 0..4; the hour in bits 11..15, the minute in bits
\* 5..10, the seconds divided by two in bits 0..4.
FatYears == {0, 19, 20, 127}

FatMonths == {1, 9, 10, 12}

FatDays == {1, 10, 31}

FatHours == {0, 9, 23}

FatMinutes == {0, 10, 59}

FatHalfSeconds == {0, 1, 4, 5, 29}

FatDates == {y * 512 + m * 32 + d : y \in FatYears, m \in FatMonths, d \in FatDays}

FatTimes == {h * 2048 + m * 32 + s : h \in FatHours, m \in FatMinutes, s \in FatHalfSeconds}

\* What the locals date and time of ftp_cmd_mdtm, lines 1146-1147, may hold
\* before the call: they are not initialised.
LocalsBefore == {0, 65535}

\* The parameters of MDTM made from a string of the encoder: the string
\* followed by a space and a name, by a space only, by nothing, by a letter; the
\* string with one character replaced, or cut short; the empty parameter.
TimeParams(str) ==
    {str \o <<" ", "a">>, str \o <<" ">>, str, str \o <<"a">>, str \o <<"a", " ">>,
     SubSeq(str, 1, 13) \o <<" ", "a">>, <<>>}
    \cup {[str EXCEPT ![k] = c] \o <<" ", "a">> : k \in {1, 8, 14}, c \in {" ", "a", "-"}}

\* A logged-in session whose ftp->finfo holds the date and time of a file.
InitDate ==
    /\ ServerInit
    /\ \E fdate \in FatDates, ftime \in FatTimes :
          ses = [SesInit EXCEPT !.st = "open", !.user = "LOGGED_IN", !.path = Root,
                                !.data_port_incremented = 1,
                                !.finfo = [fdate |-> fdate, ftime |-> ftime]]
    /\ last = NoCommand
    /\ stor = StorInit
    /\ rd = RdInit

\* The call data_time_to_str(ftp->date_str, ftp->finfo.fdate, ftp->finfo.ftime)
\* of lines 787 and 1164.
DateTimeStrCall ==
    /\ ses.st = "open"
    /\ last.verb # "data_time_to_str"
    /\ last' = [verb |-> "data_time_to_str",
                param |-> data_time_to_str(ses.finfo.fdate, ses.finfo.ftime),
                ev |-> <<>>, res |-> "-"]
    /\ UNCHANGED <<svars, ses, stor, rd>>

\* The call date_time_get(ftp->parameters, &date, &time) of line 1148 with a
\* parameter made from the string of the encoder.  The events hold the string,
\* the locals date and time before the call, and the locals after it.
DateTimeGetCall ==
    /\ ses.st = "open"
    /\ last.verb = "data_time_to_str"
    /\ \E parameters \in TimeParams(last.param), date \in LocalsBefore, time \in LocalsBefore :
          LET g == date_time_get(parameters, date, time)
          IN  last' = [verb |-> "date_time_get", param |-> parameters,
                       ev |-> <<[Ev("date_str") EXCEPT !.path = last.param],
                                [Ev("locals") EXCEPT !.path = <<date, time>>],
                                [Ev("date_time_get") EXCEPT !.path = <<g.date, g.time>>]>>,
                       res |-> IF g.len = 15 THEN "15" ELSE "0"]
    /\ UNCHANGED <<svars, ses, stor, rd>>

NextDate == DateTimeStrCall \/ DateTimeGetCall

SpecDate == InitDate /\ [][NextDate]_vars

\* ------------------------------------------------------------------ claims

\* A step of task p: every step of a task moves it or its call of ftp_set_error.
StepOf(p) == pc'[p] # pc[p] \/ ecall'[p] # ecall[p]

\* The supervisor is in the rejection of lines 1487-1499.
InReject == pc[Sup] \in {"reject", "rej_err2", "rej_delete"}

\* Slot i is occupied: its ftp_connection is set or its worker is busy.
Occupied(i) == conn[i] # NULL \/ busy[i]

\* C1: at most NbrClients sessions are served, each slot serving a connection of
\* its own.  The supervisor rejects an accepted connection exactly when its scan
\* (lines 1481-1485) found every slot occupied; the rejection writes
\* "421 No more connections allowed\r\n" to it and nothing else, and the
\* connection is in no slot, neither then nor after its deletion.
C1_Rejection ==
    /\ \A i, j \in Slots : i # j /\ conn[i] # NULL => conn[i] # conn[j]
    /\ sloc.client # NULL => \A i \in Slots : conn[i] # sloc.client
    /\ InReject <=> (sloc.client # NULL /\ sloc.seen = Slots)
    /\ InReject => sloc.rejw.text = (IF pc[Sup] = "reject" THEN "" ELSE NoConnAllowed)
    /\ ~InReject => sloc.rejw = NoWrite
    /\ pc[Sup] = "switch" => sloc.client = NULL

\* C1 happens: the rejection was written to a connection accepted while both
\* slots were occupied, and the connection is about to be deleted.
C1_Witness ==
    /\ At(Sup, "rej_delete")
    /\ sloc.rejw = [text |-> NoConnAllowed, res |-> "OK"]
    /\ \A i \in Slots : Occupied(i)
    /\ status = "RUNNING"

\* C2: the supervisor stores an accepted connection only in a slot whose
\* ftp_connection is NULL and whose worker is not busy, after it found every
\* slot of a lower index occupied; and once a slot holds a connection, the only
\* store to its ftp_connection is the NULL of its own worker, which clears busy
\* after it.
C2_Assignment ==
    [][ /\ pc[Sup] \in {"assign_stop", "assign_conn"} =>
              /\ sloc.seen = 0 .. (sloc.index - 1)
              /\ conn[sloc.index] = NULL
              /\ ~busy[sloc.index]
              /\ pc[sloc.index] = "idle"
        /\ \A i \in Slots :
              /\ conn[i] # NULL => conn'[i] \in {conn[i], NULL}
              /\ conn[i] # NULL /\ conn'[i] = NULL =>
                    pc[i] = "clear_conn" /\ pc'[i] = "clear_busy" /\ busy'[i]
              /\ conn[i] = NULL /\ conn'[i] # NULL =>
                    /\ pc[Sup] = "assign_conn"
                    /\ i = sloc.index
                    /\ conn'[i] = sloc.client
                    /\ ~busy[i]
      ]_vars

\* C2 happens: the supervisor is about to store a connection in slot 1 after it
\* found slot 0 occupied.
C2_Witness ==
    /\ At(Sup, "assign_conn")
    /\ sloc.index = 1
    /\ sloc.seen = {0}
    /\ Occupied(0)

\* The changes of FTP.status the lifecycle allows.
AllowedEdges ==
    { <<"IDLE", "STARTING">>, <<"ERROR", "STARTING">>,
      <<"STARTING", "RUNNING">>, <<"STARTING", "ERROR_STOPPING">>,
      <<"RUNNING", "STOPPING">>, <<"RUNNING", "ERROR_STOPPING">>,
      <<"STOPPING", "IDLE">>, <<"STOPPING", "ERROR_STOPPING">>,
      <<"ERROR_STOPPING", "ERROR">> }

\* C4: under every interleaving of the supervisor, the workers and the control
\* API, FTP.status changes only along the nine edges of the lifecycle.
C4_Edges == [][status' # status => <<status, status'>> \in AllowedEdges]_vars

C6_StopReachesOccupied ==
    [][ /\ pc[Sup] \in {"stop_set", "stop_set_w"}
        /\ pc'[Sup] = "poll_scan"
        /\ sloc.from = "STOPPING"
        /\ faults = MaxFaults
        => \A i \in stopocc : (conn'[i] # NULL \/ busy'[i]) => stop'[i]
      ]_vars

\* C3: when a STOR transfer ends with connection-closed and every file write
\* succeeded, the bytes written to the file, in write order, are the stream the
\* client sent (byte k of the stream is the number k).
C3_FileEqualsStream ==
    stor.st = "done" /\ stor.con_err = "CLSD" /\ ~stor.wfail
        => Flatten(stor.writes) = [k \in 1 .. stor.sent |-> k]

\* A handler of the table has just returned.
Handled(verbs) == ses.st = "open" /\ ses'.st = "done" /\ last'.verb \in verbs

PathVerbs == {"RETR", "STOR", "DELE", "RMD", "MKD", "RNTO", "MDTM", "SIZE", "RNFR"}

\* C7: after a RETR, STOR, DELE, RMD, MKD, RNTO, MDTM, SIZE or RNFR handler
\* returns in a logged-in session, whatever it replied and whatever the
\* parameter, ftp->path is what it was before the command.
C7_CwdRestored ==
    [][Handled(PathVerbs) /\ ses.user = "LOGGED_IN" => ses'.path = ses.path]_vars

\* C8: between commands ftp->path is non-empty, starts with '/' and, when it
\* is longer than one character, does not end in '/'.
C8_CwdWellFormed ==
    ses.st \in {"open", "done"}
        => /\ Len(ses.path) >= 1
           /\ ses.path[1] = "/"
           /\ Len(ses.path) > 1 => Last(ses.path) # "/"

GuardedVerbs ==
    {"PWD", "CWD", "CDUP", "MODE", "STRU", "TYPE", "PASV", "PORT", "NLST", "LIST", "MLSD",
     "DELE", "NOOP", "RETR", "STOR", "MKD", "RMD", "RNFR", "RNTO", "FEAT", "MDTM", "SIZE",
     "SITE", "STAT", "SYST"}

\* C10: while the user is not logged in, the handler of every verb but USER,
\* PASS, AUTH and QUIT makes no call (no reply, no file system or transport
\* call), changes no field of the session and returns FTP_RES_OK.
C10_GuardedWhenLoggedOut ==
    [][Handled(GuardedVerbs) /\ ses.user # "LOGGED_IN"
          => /\ last'.ev = <<Ev("FTP_CMD_BEGIN_CALLBACK"), Ev("FTP_CMD_END_CALLBACK")>>
             /\ ses' = [ses EXCEPT !.st = "done"]
             /\ last'.res = "OK"]_vars

IsReply(e) == e.e = "ftp_send"

\* The replies a handler sent on the control connection, in order.
Replies(ev) == [k \in 1 .. Len(SelectSeq(ev, IsReply)) |-> SelectSeq(ev, IsReply)[k].a]

\* C11: USER with the configured name is answered 331 and sets the login state
\* to FTP_USER_USER_NO_PASS, any other name is answered "530 Username not
\* known" and leaves the state; PASS in FTP_USER_NONE is answered "530 User not
\* specified"; PASS in another state is answered 230 and sets
\* FTP_USER_USER_LOGGED_IN when the password matches, and is otherwise answered
\* "530 Password not correct" and leaves the state.  Each handler sends that one
\* reply and no other.
C11_Login ==
    [][ /\ Handled({"USER"}) =>
              IF last'.param = ftp_user_name
              THEN Replies(last'.ev) = <<"331">> /\ ses'.user = "USER_NO_PASS"
              ELSE Replies(last'.ev) = <<"530 Username not known">> /\ ses'.user = ses.user
        /\ Handled({"PASS"}) =>
              IF ses.user = "NONE"
              THEN Replies(last'.ev) = <<"530 User not specified">> /\ ses'.user = "NONE"
              ELSE IF last'.param = ftp_user_pass
              THEN Replies(last'.ev) = <<"230">> /\ ses'.user = "LOGGED_IN"
              ELSE Replies(last'.ev) = <<"530 Password not correct">> /\ ses'.user = ses.user
      ]_vars

\* C11 happens: PASS with the configured password, after USER, was answered 230
\* and the session is logged in.
C11_Witness ==
    /\ ses.st = "done"
    /\ last.verb = "PASS"
    /\ last.param = ftp_user_pass
    /\ Replies(last.ev) = <<"230">>
    /\ ses.user = "LOGGED_IN"

\* ---------------------------------------------- concurrent ftp_set_error
\*
\* SpecErrors follows the workers from the state in which the running server
\* has handed a connection to every slot (ftp_running, line 1502, once per
\* slot) and no session has started yet.  Each session can meet one failing
\* transport call; the supervisor and the application do not run.

Serving ==
    /\ status = "RUNNING"
    /\ errors = {}
    /\ port \in PortValues
    /\ conn = [i \in Slots |-> i + 1]
    /\ busy = [i \in Slots |-> FALSE]
    /\ stop = [i \in Slots |-> FALSE]
    /\ pc = [p \in Procs |-> IF p = Sup THEN "switch" ELSE "idle"]
    /\ ecall = [p \in Procs |-> NoCall]
    /\ srv = "open"
    /\ sloc = [SLocInit EXCEPT !.client = NULL]
    /\ wloc = [i \in Slots |-> "none"]
    /\ apc = "ready"
    /\ stopocc = {}
    /\ errpend = FALSE

InitErrors ==
    /\ Serving
    /\ faults = NbrClients
    /\ ses = SesInit
    /\ last = NoCommand
    /\ stor = StorInit
    /\ rd = RdInit

NextErrors ==
    \/ \E i \in Slots : Worker(i)
    \/ \E p \in Procs : SetError(p)

SpecErrors == InitErrors /\ [][NextErrors]_vars

\* C12: the call ftp_set_error(code) stores FTP_ERROR_STOPPING in FTP.status
\* (line 163) and its store of line 164 leaves the bit of `code` set in
\* FTP.errors; no bit of FTP.errors is cleared by a step other than the store
\* of ftp_clear_errors (line 1452), which follows a load of FTP_ERROR from
\* FTP.status: FTP.errors only grows across the steps of the workers, the
\* supervisor, ftp_start and ftp_stop.
C12_ErrorsGrow ==
    [][ /\ \A p \in Procs :
              /\ ecall[p].st = 1 /\ ecall'[p].st = 2 => status' = "ERROR_STOPPING"
              /\ ecall[p].st = 3 /\ ecall'[p].st = 0 => ecall[p].codes \cap errors' # {}
        /\ apc # "clear_store" => errors \subseteq errors'
      ]_vars

\* C13: after ftp_set_error has stored FTP_ERROR_STOPPING, under every
\* interleaving with ftp_stop, ftp_start and the supervisor's status stores,
\* FTP.status is neither FTP_IDLE nor FTP_RUNNING before it has been FTP_ERROR.
C13_ErrorBeforeRest == errpend => status \notin {"IDLE", "RUNNING"}

\* C14: the store of ftp_start changes FTP.status only from FTP_IDLE or
\* FTP_ERROR, to FTP_STARTING; the store of ftp_stop changes it only from
\* FTP_RUNNING, to FTP_STOPPING; the store of ftp_clear_errors changes
\* FTP.errors only while FTP.status is FTP_ERROR; a call that finds another
\* status makes no store, and none of the calls changes the other field.
C14_ApiFrame ==
    [][ /\ apc = "start_store" /\ apc' = "ready" =>
              status \in {"IDLE", "ERROR"} /\ status' = "STARTING" /\ errors' = errors
        /\ apc = "stop_store" /\ apc' = "ready" =>
              status = "RUNNING" /\ status' = "STOPPING" /\ errors' = errors
        /\ apc = "clear_store" /\ apc' = "ready" =>
              status = "ERROR" /\ status' = "ERROR" /\ errors' = {}
        /\ apc = "ready" /\ apc' = "ready" /\ pc' = pc /\ ecall' = ecall =>
              status' = status /\ errors' = errors
      ]_vars

\* The supervisor is inside ftp_stopping or just after it.
InStop == pc[Sup] \in {"stop_set", "stop_set_w", "poll_scan", "stop_done", "stop_idle"}

\* The supervisor's pass through the STOPPING or ERROR_STOPPING case ends.
StopEnds == pc[Sup] \in {"stop_done", "stop_idle"} /\ pc'[Sup] = "switch"

TeardownRank(e) ==
    CASE e.e \in {"netconn_close", "netconn_delete"} /\ e.a = "listdataconn" -> 1
      [] e.e = "ftp_set_error" /\ e.a \in ListenDataErrorCodes -> 1
      [] e.e \in {"netconn_close", "netconn_delete"} /\ e.a = "dataconn" -> 2
      [] e.e = "ftp_set_error" /\ e.a \in DataErrorCodes -> 2
      [] e.e = "netconn_delete" /\ e.a = "ctrlconn" -> 3
      [] e.e = "ftp_set_error" /\ e.a = "CLIENT_NETCONN_DELETE" -> 3
      [] e.e = "ftp_connection = NULL" -> 4
      [] e.e = "FTP_DISCONNECTED_CALLBACK" -> 5
      [] e.e = "busy = false" -> 6
      [] OTHER -> 0

\* How often call `name` on connection `a` is in ev.
Count(ev, name, a) == Cardinality({k \in 1 .. Len(ev) : ev[k].e = name /\ ev[k].a = a})

\* C16: every session end closes the passive listener if there is one, closes
\* the data connection if there is one, deletes the control connection, stores
\* NULL in ftp_connection and stores false in busy, in this order and each
\* once; then the session holds neither a listener nor a data connection.
C16_TeardownOrder ==
    [][ses.st = "leaving" /\ ses'.st = "closed" =>
          LET ev == last'.ev
          IN  /\ \A j, k \in 1 .. Len(ev) :
                    j < k => TeardownRank(ev[j]) > 0 /\ TeardownRank(ev[j]) <= TeardownRank(ev[k])
              /\ Count(ev, "netconn_close", "listdataconn") = (IF ses.listdataconn THEN 1 ELSE 0)
              /\ Count(ev, "netconn_delete", "listdataconn") = (IF ses.listdataconn THEN 1 ELSE 0)
              /\ Count(ev, "netconn_close", "dataconn") = (IF ses.dataconn THEN 1 ELSE 0)
              /\ Count(ev, "netconn_delete", "dataconn") = (IF ses.dataconn THEN 1 ELSE 0)
              /\ Count(ev, "netconn_delete", "ctrlconn") = 1
              /\ Count(ev, "ftp_connection = NULL", "") = 1
              /\ Count(ev, "busy = false", "") = 1
              /\ ~ses'.listdataconn
              /\ ~ses'.dataconn
              /\ ses'.data_conn_mode = "NOT_SET"]_vars

\* C16 happens: a session that held a listener and a data connection when it
\* left its loop has ended.
C16_Witness ==
    /\ ses.st = "closed"
    /\ last.verb = "teardown"
    /\ Count(last.ev, "netconn_close", "listdataconn") = 1
    /\ Count(last.ev, "netconn_close", "dataconn") = 1
    /\ Last(last.ev).e = "busy = false"

\* ------------------------------------------------------- ftp_read_command
\*
\* SpecRead follows worker 0 through the loop of ftp_service: each call of
\* ftp_read_command, one polling iteration per step, and what ftp_service does
\* with the result.  Between two iterations the other tasks change the two
\* shared fields the loop loads, the slot's stop flag and FTP.status.

\* FTP_SERVER_INACTIVE_CNT (60 by default), scaled down.
InactiveCnt == 3

\* The running server with a session in slot 0 that has sent its welcome line.
InitRead ==
    /\ status = "RUNNING"
    /\ errors = {}
    /\ port \in PortValues
    /\ conn = [i \in Slots |-> IF i = 0 THEN 1 ELSE NULL]
    /\ busy = [i \in Slots |-> i = 0]
    /\ stop = [i \in Slots |-> FALSE]
    /\ pc = [p \in Procs |-> IF p = Sup THEN "switch" ELSE IF p = 0 THEN "read" ELSE "idle"]
    /\ ecall = [p \in Procs |-> NoCall]
    /\ srv = "open"
    /\ sloc = [SLocInit EXCEPT !.client = NULL]
    /\ wloc = [i \in Slots |-> "none"]
    /\ apc = "ready"
    /\ faults = MaxFaults
    /\ stopocc = {}
    /\ errpend = FALSE
    /\ ses = SesInit
    /\ last = NoCommand
    /\ stor = StorInit
    /\ rd = RdInit

\* Lines 288-292: the loop is left; a last receive that timed out with res
\* still FTP_RES_OK makes the result FTP_RES_TIMEOUT.
RdExit(r) ==
    [r EXCEPT !.st = "returned",
              !.res = IF r.res = "OK" /\ r.err = "ERR_TIMEOUT" THEN "TIMEOUT" ELSE r.res]

\* Line 264-266: the call, up to the first test of the loop condition.
RdCall ==
    /\ rd.st = "service"
    /\ rd' = [RdInit EXCEPT !.st = "poll"]
    /\ UNCHANGED <<svars, ses, last, stor>>

\* What netconn_recv returns: a buffer, a timeout, a closed or reset connection.
RecvResults == {"ERR_OK", "ERR_TIMEOUT", "ERR_CLSD", "ERR_RST"}

\* An iteration that does not test the stop flag and the status.
RdTickUnchecked ==
    /\ rd.st = "poll"
    /\ \E err \in RecvResults, link \in BOOLEAN :
          LET r == [rd EXCEPT !.err = err]
          IN  rd' = CASE err = "ERR_OK" -> RdExit([r EXCEPT !.ticks = Append(@, "data")])
                      [] err = "ERR_TIMEOUT" /\ ~link ->
                            RdExit([r EXCEPT !.res = "ERROR", !.ticks = Append(@, "link_down")])
                      [] err = "ERR_TIMEOUT" /\ link ->
                            IF rd.i + 1 < InactiveCnt
                            THEN [r EXCEPT !.i = @ + 1, !.ticks = Append(@, "timeout")]
                            ELSE RdExit([r EXCEPT !.i = @ + 1, !.ticks = Append(@, "timeout")])
                      [] OTHER -> RdExit([r EXCEPT !.res = "ERROR", !.ticks = Append(@, "error")])
    /\ UNCHANGED <<svars, ses, last, stor>>

\* Lines 266-287: one iteration of the polling loop.  FTP_ETH_IS_LINK_UP() is
\* the application's probe; it is called on a timeout only.
RdTick ==
    /\ rd.st = "poll"
    /\ IF stop[0]
       THEN rd' = RdExit([rd EXCEPT !.res = "ERROR", !.ticks = Append(@, "stop")])
       ELSE IF status \in {"ERROR", "ERROR_STOPPING"}
       THEN rd' = RdExit([rd EXCEPT !.res = "ERROR", !.ticks = Append(@, "status")])
       ELSE \E err \in RecvResults, link \in BOOLEAN :
              LET r == [rd EXCEPT !.err = err]
              IN  rd' = CASE err = "ERR_OK" -> RdExit([r EXCEPT !.ticks = Append(@, "data")])
                          [] err = "ERR_TIMEOUT" /\ ~link ->
                                RdExit([r EXCEPT !.res = "ERROR",
                                                 !.ticks = Append(@, "link_down")])
                          [] err = "ERR_TIMEOUT" /\ link ->
                                IF rd.i + 1 < InactiveCnt
                                THEN [r EXCEPT !.i = @ + 1, !.ticks = Append(@, "timeout")]
                                ELSE RdExit([r EXCEPT !.i = @ + 1,
                                                      !.ticks = Append(@, "timeout")])
                          [] OTHER ->
                                RdExit([r EXCEPT !.res = "ERROR", !.ticks = Append(@, "error")])
    /\ UNCHANGED <<svars, ses, last, stor>>

\* ftp_service, lines 1372-1383: a result other than FTP_RES_OK leaves the
\* loop; otherwise the command is parsed and processed, and the loop goes on
\* unless the parse failed, the handler did not return FTP_RES_OK or the
\* command was QUIT.
RdService ==
    /\ rd.st = "returned"
    /\ IF rd.res # "OK"
       THEN rd' = [rd EXCEPT !.st = "left", !.did = "nothing"]
       ELSE \/ rd' = [rd EXCEPT !.st = "left", !.did = "parse"]
            \/ rd' = [rd EXCEPT !.st = "left", !.did = "command"]
            \/ rd' = [rd EXCEPT !.st = "service", !.did = "command"]
    /\ UNCHANGED <<svars, ses, last, stor>>

\* The stores of the other tasks to the fields the loop loads: ftp_stop (line
\* 1435), ftp_set_error (line 163), ftp_stopping (line 1514, the slot is
\* busy) and the end of the supervisor's stop (lines 1560 and 1565).
RdOthers ==
    /\ rd.st \in {"service", "poll"}
    /\ \/ status = "RUNNING" /\ status' = "STOPPING" /\ stop' = stop
       \/ status \in {"RUNNING", "STOPPING"} /\ status' = "ERROR_STOPPING" /\ stop' = stop
       \/ /\ status \in {"STOPPING", "ERROR_STOPPING"}
          /\ ~stop[0]
          /\ stop' = [stop EXCEPT ![0] = TRUE]
          /\ status' = status
       \/ status = "STOPPING" /\ stop[0] /\ status' = "IDLE" /\ stop' = stop
       \/ status = "ERROR_STOPPING" /\ stop[0] /\ status' = "ERROR" /\ stop' = stop
    /\ UNCHANGED <<errors, port, conn, busy, pc, ecall, srv, sloc, wloc, apc, faults, stopocc,
                   errpend, sesvars>>

NextRead == RdCall \/ RdTick \/ RdService \/ RdOthers

SpecRead == InitRead /\ [][NextRead]_vars

\* The call of ftp_read_command returns.
RdReturns == rd.st = "poll" /\ rd'.st = "returned"

AllTimeouts == [k \in 1 .. InactiveCnt |-> "timeout"]

TableVerbs == GuardedVerbs \cup {"AUTH", "USER", "PASS"}

\* C18: in any login state, QUIT is answered "221 Goodbye" and no command of
\* the session is processed after it; a verb with no entry in ftpd_commands is
\* answered "500 Unknown command", no handler and no callback runs, and the
\* session goes on once the reply is written; a verb with an entry runs
\* FTP_CMD_BEGIN_CALLBACK, the handler and FTP_CMD_END_CALLBACK in this order,
\* each callback once.
C18_Dispatch ==
    [][ /\ Handled({"QUIT"}) =>
              Replies(last'.ev) = <<"221">> /\ ses' = [ses EXCEPT !.st = "done"]
        /\ ses.st = "done" /\ last.verb = "QUIT" => ses'.st = "leaving"
        /\ ses.st = "leaving" => ses'.st = "closed"
        /\ Handled({"XXXX"}) =>
              /\ Replies(last'.ev) = <<"500 Unknown command">>
              /\ Count(last'.ev, "FTP_CMD_BEGIN_CALLBACK", "") = 0
              /\ Count(last'.ev, "FTP_CMD_END_CALLBACK", "") = 0
              /\ ses' = [ses EXCEPT !.st = "done"]
        /\ ses.st = "done" /\ last.verb = "XXXX" /\ last.res = "OK" => ses'.st = "open"
        /\ Handled(TableVerbs) =>
              /\ last'.ev[1].e = "FTP_CMD_BEGIN_CALLBACK"
              /\ Last(last'.ev).e = "FTP_CMD_END_CALLBACK"
              /\ Count(last'.ev, "FTP_CMD_BEGIN_CALLBACK", "") = 1
              /\ Count(last'.ev, "FTP_CMD_END_CALLBACK", "") = 1
        /\ ses.st = "open" /\ ses'.st = "done" => last'.verb \in TableVerbs \cup {"QUIT", "XXXX"}
      ]_vars

\* C18 happens: QUIT was answered 221 in a logged-in session, which is about
\* to leave its loop.
C18_Witness ==
    /\ ses.st = "done"
    /\ ses.user = "LOGGED_IN"
    /\ last.verb = "QUIT"
    /\ last.res = "OK"
    /\ Replies(last.ev) = <<"221">>

\* The calls of a handler that send the 227 reply.
Sent227(ev) == {k \in DOMAIN ev : ev[k].e = "ftp_send" /\ ev[k].a = "227"}

\* The port a client reads from the two numbers ph and pl of a 227 reply.
PortOf(n) == (n \div 65536) * 256 + (n % 65536)

\* C19: when PASV has sent the 227 reply, listdataconn is set, data_conn_mode
\* is DCM_PASSIVE, dataconn is NULL, and ph * 256 + pl of the reply is the port
\* the listener is bound to, whether the listener was opened by this PASV or
\* by an earlier one and whatever PORT left in data_port.
C19_PasvReply ==
    [][Handled({"PASV"}) /\ Sent227(last'.ev) # {} =>
          /\ ses'.listdataconn
          /\ ses'.data_conn_mode = "PASSIVE"
          /\ ~ses'.dataconn
          /\ \A k \in Sent227(last'.ev) : PortOf(last'.ev[k].n) = ses'.listen_port]_vars

\* PASV has been answered 227 over a listener an earlier PASV opened.
C19_Witness ==
    /\ ses.st = "done"
    /\ last.verb = "PASV"
    /\ last.res = "OK"
    /\ Sent227(last.ev) # {}
    /\ \A k \in DOMAIN last.ev : last.ev[k].e # "netconn_bind"
    /\ ses.listen_port = FTP_DATA_PORT + ses.data_port_incremented

\* PASV has returned FTP_RES_ERROR after a call of pasv_con_open or
\* data_con_close failed.
PasvFailed ==
    /\ Handled({"PASV"})
    /\ ses.user = "LOGGED_IN"
    /\ last'.res = "ERROR"
    /\ \E k \in DOMAIN last'.ev : last'.ev[k].e = "ftp_set_error"

\* C20: when PASV fails because creating, binding or listening on the
\* listener fails, or because closing the data connection fails, listdataconn
\* is NULL and data_conn_mode is DCM_NOT_SET when the handler returns.
C20_PasvFailure ==
    [][PasvFailed => ~ses'.listdataconn /\ ses'.data_conn_mode = "NOT_SET"]_vars
\* C21: every PASV of a logged-in session of slot num stores
\* FTP_DATA_PORT + r + num * 25 in data_port, where r = data_port_incremented
\* is in 0 .. 24, does not change within the session and advances by one
\* modulo 25 when a session starts; the ports of two consecutive sessions of a
\* slot differ, no other slot computes that port for any r, and the sum is
\* below 65536.
C21_PasvPort ==
    [][ /\ ses'.data_port_incremented \in 0 .. PORT_INCREMENT_OFFSET - 1
        /\ ses'.ftp_con_num = ses.ftp_con_num
        /\ IF ses.st = "closed" /\ ses'.st # "closed"
           THEN /\ ses'.data_port_incremented
                      = (ses.data_port_incremented + 1) % PORT_INCREMENT_OFFSET
                /\ PasvDataPort(ses.ftp_con_num, ses'.data_port_incremented)
                      # PasvDataPort(ses.ftp_con_num, ses.data_port_incremented)
           ELSE ses'.data_port_incremented = ses.data_port_incremented
        /\ Handled({"PASV"}) /\ ses.user = "LOGGED_IN" =>
              /\ ses'.data_port = FTP_DATA_PORT + ses'.data_port_incremented
                                      + ses'.ftp_con_num * PORT_INCREMENT_OFFSET
              /\ ses'.data_port < 65536
              /\ \A num \in Slots \ {ses.ftp_con_num} :
                    \A r \in 0 .. PORT_INCREMENT_OFFSET - 1 :
                       PasvDataPort(num, r) # ses'.data_port ]_vars

\* Slot 1 has answered PASV with 227 in the session in which
\* data_port_incremented went from 24 back to 0.
C21_Witness ==
    /\ ses.st = "done"
    /\ last.verb = "PASV"
    /\ Sent227(last.ev) # {}
    /\ ses.ftp_con_num = 1
    /\ ses.data_port_incremented = 0
    /\ ses.data_port = FTP_DATA_PORT + PORT_INCREMENT_OFFSET
    /\ ses.listen_port = ses.data_port
\* C22: a command line whose parameters are longer than FTP_PARAM_SIZE - 1
\* bytes is answered with a reply on the control connection and the session
\* goes on to the next command.
C22_LongParameters ==
    [][ /\ ses.st = "open"
        /\ last'.verb = "ftp_parse_command"
        /\ Len(last'.param) > FTP_PARAM_SIZE - 1
        => Replies(last'.ev) # <<>> /\ ses'.st = "done" /\ last'.res = "OK" ]_vars

\* C23: the steps by which the supervisor rejects an accepted connection
\* (the write of the 421 line with any outcome, and what follows it up to the
\* deletion) change no slot's ftp_connection, busy or stop and change neither
\* FTP.status nor FTP.errors.
C23_RejectFrame ==
    [][StepOf(Sup) /\ InReject =>
          /\ conn' = conn /\ busy' = busy /\ stop' = stop
          /\ status' = status /\ errors' = errors]_vars

\* The handler called f_rename.
Renames(ev) == \E k \in DOMAIN ev : ev[k].e = "f_rename"

\* C24: path_rename goes from empty to non-empty only in an RNFR that is
\* answered 350, and an RNTO with a file name that finds path_rename empty is
\* answered "503 Need RNFR before RNTO" and does not call f_rename.
C24_RenameFrom ==
    [][ /\ ses.st # "closed" /\ ses.path_rename = <<>> /\ ses'.path_rename # <<>> =>
              Handled({"RNFR"}) /\ Replies(last'.ev) = <<"350">>
        /\ Handled({"RNTO"}) /\ ses.user = "LOGGED_IN" /\ ses.path_rename = <<>>
              /\ last'.param # <<>> =>
              Replies(last'.ev) = <<"503">> /\ ~Renames(last'.ev) ]_vars

\* A working directory: it starts with '/' and, when longer than one
\* character, does not end in '/'.
ValidCwd(path) ==
    /\ Len(path) >= 1
    /\ path[1] = "/"
    /\ Len(path) > 1 => Last(path) # "/"

\* The position of the last '/' of a working directory.
LastSlash(path) ==
    CHOOSE k \in 1 .. Len(path) : path[k] = "/" /\ \A j \in k + 1 .. Len(path) : path[j] # "/"

\* A working directory without its last component: "/" at depth 1 and at the root.
Parent(path) == IF LastSlash(path) = 1 THEN Root ELSE SubSeq(path, 1, LastSlash(path) - 1)

\* One trailing '/' goes from a string longer than one character.
Stripped(path) ==
    IF Len(path) > 1 /\ Last(path) = "/" THEN SubSeq(path, 1, Len(path) - 1) ELSE path

\* The result C26 states for path_build(current, param).
Built(current, param) ==
    Stripped(IF param = Root \/ param = <<>> THEN Root
             ELSE IF param = <<".", ".">> THEN Parent(current)
             ELSE IF param[1] # "/"
                  THEN (IF current = Root THEN current ELSE Append(current, "/")) \o param
             ELSE param)

\* C26: for a working directory `current` and a parameter that fits the
\* array, path_build leaves in current_path: "/" for the parameter "/" or the
\* empty one; current without its last component for ".."; current, one '/'
\* and the parameter for a parameter that does not start with '/'; the
\* parameter for one that does; each without one trailing '/' when longer
\* than one character.
C26_PathBuild ==
    [][last'.verb = "path_build" /\ ValidCwd(ses.path) =>
          ses'.path = Built(ses.path, last'.param)]_vars

\* A step of ftp_starting up to its first access to FTP.status or FTP.errors.
StartingStep == At(Sup, "starting") /\ StepOf(Sup)

\* What C25 states of every step between the start of ftp_starting and the
\* store of FTP_ERROR or FTP_RUNNING, but for the code a failed start records
\* and the socket it leaves.
StartFrame ==
    /\ StartingStep =>
          IF sloc'.att = "ok"
          THEN /\ port # 0 /\ pc'[Sup] = "start_run" /\ ecall'[Sup].st = 0
               /\ errors' = errors /\ status' = status
          ELSE /\ sloc'.att = "failed"
               /\ ecall'[Sup] = [st |-> 1, codes |-> sloc'.codes, tmp |-> {}]
               /\ pc'[Sup] # "start_run" /\ status' # "RUNNING"
    /\ At(Sup, "start_run") /\ StepOf(Sup) => status' = "RUNNING" /\ errors' = errors
    /\ sloc.att = "failed" =>
          /\ status' \in {"STARTING", "ERROR_STOPPING", "ERROR"}
          /\ status' = "ERROR" => sloc'.att = "ended"
          /\ srv' # srv => srv = "open" /\ srv' = "deleted"
          /\ ecall[Sup].st = 3 /\ ecall'[Sup].st = 0 /\ ecall[Sup].codes = sloc.codes =>
                errors' \cap sloc.codes # {}

EncodedTime(parameters) ==
    /\ Len(parameters) >= 15
    /\ SubSeq(parameters, 1, 14) = last.ev[1].path
    /\ parameters[15] = " "

\* One of the first 14 characters is not a digit, or the 15th is not a space.
NotATime(parameters) ==
    \/ Len(parameters) < 15
    \/ parameters[15] # " "
    \/ \E k \in 1 .. 14 : parameters[k] \notin Range(Digits)

\* C27: for a valid FAT date and time, date_time_get of the 14 digits of
\* data_time_to_str followed by a space returns 15 and stores the same date and
\* time; it returns 0 and stores nothing when one of the first 14 characters is
\* not a digit or the 15th is not a space.
C27_DateCodec ==
    last.verb = "date_time_get" =>
        /\ EncodedTime(last.param) =>
              /\ last.res = "15"
              /\ last.ev[3].path = <<ses.finfo.fdate, ses.finfo.ftime>>
        /\ NotATime(last.param) =>
              /\ last.res = "0"
              /\ last.ev[3].path = last.ev[2].path

\* C27 happens: 2107-12-31 23:59:58 came back from its string, into locals that
\* held other values.
C27_Witness ==
    /\ last.verb = "date_time_get"
    /\ EncodedTime(last.param)
    /\ last.param = <<"2", "1", "0", "7", "1", "2", "3", "1", "2", "3", "5", "9", "5", "8", " ", "a">>
    /\ ses.finfo = [fdate |-> 127 * 512 + 12 * 32 + 31, ftime |-> 23 * 2048 + 59 * 32 + 29]
    /\ last.ev[2].path = <<0, 0>>
    /\ last.ev[3].path = <<ses.finfo.fdate, ses.finfo.ftime>>
    /\ last.res = "15"

\* The writes a step of ftp_cmd_stor adds to the writes of the file.
NewWrites == SubSeq(stor'.writes, Len(stor.writes) + 1, Len(stor'.writes))

\* C28: in a STOR transfer, after every segment of at most BufSize bytes the
\* free count of ftp_buff is in 1..BufSize, and is the one of lines 951-974 when
\* no write failed; a write issued for such a segment asks for exactly BufSize
\* bytes from the base of ftp_buff; the flush at the end of the connection asks
\* for BufSize minus the free count bytes from the base of ftp_buff, and is not
\* issued when the buffer is empty; for a buffer of 1024 bytes and the segments
\* 900, 800, 900 the writes are of 1024, 1024 and 552 bytes.
C28_Coalescing ==
    [][ /\ stor.st = "segs" /\ Head(stor.chain) <= BufSize =>
              LET buff_free_bytes == BufSize - Len(stor.buf)
                  c == Coalesce(BufSize, buff_free_bytes, Head(stor.chain))
              IN  /\ BufSize - Len(stor'.buf) \in 1 .. BufSize
                  /\ Len(NewWrites) = (IF c.write = 0 THEN 0 ELSE 1)
                  /\ \A k \in DOMAIN NewWrites :
                        NewWrites[k].len = BufSize /\ NewWrites[k].from = "ftp_buff"
                  /\ stor'.wfail = stor.wfail => BufSize - Len(stor'.buf) = c.free
        /\ stor.st = "recv" /\ stor'.st = "done" =>
              LET buff_free_bytes == BufSize - Len(stor.buf)
              IN  /\ Len(NewWrites) = (IF buff_free_bytes = BufSize THEN 0 ELSE 1)
                  /\ \A k \in DOMAIN NewWrites :
                        /\ NewWrites[k].len = BufSize - buff_free_bytes
                        /\ NewWrites[k].from = "ftp_buff"
        /\ WriteCounts(1024, 1024, <<900, 800, 900>>) = <<1024, 1024, 552>>
      ]_vars

\* C28 happens: a transfer of segments of at most BufSize bytes has ended with
\* the connection closed after two writes from ftp_buff, the first of BufSize
\* bytes, the flush of fewer.
C28_Witness ==
    /\ stor.st = "done"
    /\ stor.con_err = "CLSD"
    /\ ~stor.wfail
    /\ Len(stor.writes) = 2
    /\ \A k \in 1 .. 2 : stor.writes[k].from = "ftp_buff"
    /\ stor.writes[1].len = BufSize
    /\ stor.writes[2].len = 2
    /\ stor.writes[2].bytes = <<4, 5>>

TransferVerbs == {"LIST", "NLST", "MLSD", "RETR", "STOR"}

\* The positions of the calls e on a in the calls of a command.
Pos(ev, e, a) == {k \in DOMAIN ev : ev[k].e = e /\ ev[k].a = a}

\* The data connection is opened by the accept of passive mode or the connect
\* of active mode, moves bytes in netconn_write and netconn_recv_tcp_pbuf, and
\* is closed by netconn_close.
DataOpened(ev) == Pos(ev, "netconn_accept", "listdataconn") \cup Pos(ev, "netconn_connect", "dataconn")

DataMoved(ev) == Pos(ev, "netconn_write", "dataconn") \cup {k \in DOMAIN ev : ev[k].e = "netconn_recv_tcp_pbuf"}

DataClosed(ev) == Pos(ev, "netconn_close", "dataconn")

\* The replies written after the 150 reply at position k and before the data
\* connection is closed.
RepliesWhileOpen(ev, k) ==
    {j \in DOMAIN ev : /\ j > k
                       /\ ev[j].e = "ftp_send"
                       /\ \A c \in DataClosed(ev) : c > j}

\* The 150 reply follows the opening of the data connection and precedes every
\* byte on it, and the 226 reply follows its closing.
Reply150And226InOrder(ev) ==
    /\ \A k \in Pos(ev, "ftp_send", "150") :
          /\ \E j \in DataOpened(ev) : j < k
          /\ \A j \in DataMoved(ev) : j > k
    /\ \A k \in Pos(ev, "ftp_send", "226") : \E c \in DataClosed(ev) : c < k

\* C29 as the specification states it: in LIST, NLST, MLSD, RETR and STOR the
\* 150 reply is written after the data connection is opened and before any byte
\* moves on it, no reply is written between the 150 reply and the closing of
\* the data connection, and the 226 reply is written after the closing.
C29_NoReplyWhileOpen ==
    last.verb \in TransferVerbs =>
        /\ Reply150And226InOrder(last.ev)
        /\ \A k \in Pos(last.ev, "ftp_send", "150") : RepliesWhileOpen(last.ev, k) = {}

\* C29, amended: the 150 reply is written after the data connection is opened
\* and before any byte moves on it, the 226 reply after the closing, and the
\* only replies written between the 150 reply and the closing are the 451 and
\* the 426 of a transfer that failed.
C29_TransferReplies ==
    last.verb \in TransferVerbs =>
        /\ Reply150And226InOrder(last.ev)
        /\ \A k \in Pos(last.ev, "ftp_send", "150") :
              \A j \in RepliesWhileOpen(last.ev, k) : last.ev[j].a \in {"451", "426"}

\* C29 happens: a STOR answered 150, then 451 while the data connection was
\* open, then 226 after it was closed.
C29_Witness ==
    /\ last.verb = "STOR"
    /\ Replies(last.ev) = <<"150", "451", "226">>
    /\ \E k \in Pos(last.ev, "ftp_send", "150") :
          \E j \in RepliesWhileOpen(last.ev, k) : last.ev[j].a = "451"
    /\ \E c \in DataClosed(last.ev) : \A k \in Pos(last.ev, "ftp_send", "226") : c < k
    /\ DataMoved(last.ev) # {}

\* A transfer command that opened the data connection (it went on to the 150
\* reply) has just returned with no data connection and no mode.
TransferLeavesNoChannel ==
    Handled(TransferVerbs) /\ Pos(last'.ev, "ftp_send", "150") # {}
        => ses'.data_conn_mode = "NOT_SET" /\ ~ses'.dataconn

\* A transfer command of a logged-in session that found no mode has just
\* returned: it made no accept and no connect, sent no 150, and was answered
\* 425 unless one of the checks before data_con_open answered it.
TransferWithoutModeRefused ==
    Handled(TransferVerbs) /\ ses.user = "LOGGED_IN" /\ ses.data_conn_mode = "NOT_SET"
        => /\ DataOpened(last'.ev) = {}
           /\ DataMoved(last'.ev) = {}
           /\ Replies(last'.ev) \in {<<"425">>, <<"550">>, <<"501">>, <<"500">>, <<"450">>}
           /\ ~ses'.dataconn

\* C30: a PASV or PORT serves at most one transfer: when a LIST, NLST, MLSD,
\* RETR or STOR that opened the data connection returns, data_conn_mode is
\* DCM_NOT_SET and dataconn is NULL; a transfer command that finds the mode
\* not set fails in data_con_open with no accept and no connect and is
\* answered 425.
C30_OneTransfer == [][TransferLeavesNoChannel /\ TransferWithoutModeRefused]_vars

\* The calls of f_utime among the calls of a command.
Utimes(ev) == {k \in DOMAIN ev : ev[k].e = "f_utime"}

\* C31: an MDTM whose parameter is 14 digits, a space and a file name calls
\* f_utime with the decoded date and time on the path of the named file, the
\* path ftp->path joined with the name that f_stat was called with, and is
\* answered 200 when f_utime succeeds and 550 when f_stat or f_utime fails.
C31_UtimeOnNamedFile ==
    [][ /\ Handled({"MDTM"})
        /\ ses.user = "LOGGED_IN"
        /\ date_time_get(last'.param, 0, 0).len = 15
        /\ Len(last'.param) > 15
        => LET g == date_time_get(last'.param, 0, 0)
               named == path_build(ses.path, After(last'.param, 15))
           IN  /\ \A k \in Utimes(last'.ev) :
                     /\ last'.ev[k].path = named.path
                     /\ last'.ev[k].n = g.date * 65536 + g.time
                     /\ \E j \in 1 .. (k - 1) :
                           last'.ev[j].e = "f_stat" /\ last'.ev[j].path = last'.ev[k].path
               /\ named.ok => Replies(last'.ev) \in {<<"200">>, <<"550">>}
      ]_vars

\* C32: ftp_service starts every session with FTP_USER_NONE, whatever the
\* login state the session before it on the slot ended with; and the login
\* state changes only there, in a USER with the configured name, which stores
\* FTP_USER_USER_NO_PASS, and in a PASS with the configured password that finds
\* FTP_USER_USER_NO_PASS, which stores FTP_USER_USER_LOGGED_IN: a session is
\* logged in only after that USER and, later in the same session, that PASS.
C32_LoginOnlyByUserAndPass ==
    [][ /\ ses.st = "closed" /\ ses'.st # "closed" => ses'.user = "NONE"
        /\ ses'.user # ses.user =>
              \/ ses.st = "closed" /\ ses'.st # "closed" /\ ses'.user = "NONE"
              \/ /\ Handled({"USER"})
                 /\ last'.param = ftp_user_name
                 /\ ses'.user = "USER_NO_PASS"
              \/ /\ Handled({"PASS"})
                 /\ last'.param = ftp_user_pass
                 /\ ses.user = "USER_NO_PASS"
                 /\ ses'.user = "LOGGED_IN"
      ]_vars

\* C32 happens: the second session of the slot has logged in with PASS.
C32_Witness ==
    /\ ses.data_port_incremented = 2
    /\ ses.st = "done"
    /\ last.verb = "PASS"
    /\ last.param = ftp_user_pass
    /\ ses.user = "LOGGED_IN"

\* C33: whenever FTP.status is FTP_IDLE no slot is occupied: ftp_connection is
\* NULL and busy is false in every slot, under every interleaving of the
\* supervisor, the workers and the control API.
C33_IdleMeansNoSession == status = "IDLE" => \A i \in Slots : ~Occupied(i)

\* C34: the server socket a start created is deleted once: the supervisor never
\* enters ftp_stopping, in the FTP_STOPPING or the FTP_ERROR_STOPPING case, with
\* a socket that an earlier ftp_stopping deleted.
C34_ServerDeletedOnce ==
    [][ At(Sup, "switch") /\ StepOf(Sup) /\ status \in {"STOPPING", "ERROR_STOPPING"}
        => srv # "deleted" ]_vars

\* C35: a RETR or STOR that is answered 226 sent no 451 and no 426 reply.
C35_NoSuccessAfterFailure ==
    last.verb \in {"RETR", "STOR"} /\ Pos(last.ev, "ftp_send", "226") # {}
        => Pos(last.ev, "ftp_send", "451") = {} /\ Pos(last.ev, "ftp_send", "426") = {}

\* C36: a CWD that is answered 550, 500 or 501 leaves ftp->path as it was, so
\* the PWD that follows reports the directory of before the CWD.
C36_FailedCwdKeepsPath ==
    [][ /\ Handled({"CWD"})
        /\ ses.user = "LOGGED_IN"
        /\ Replies(last'.ev) \in {<<"550">>, <<"500">>, <<"501">>}
        => ses'.path = ses.path ]_vars

\* C37: a RETR or STOR that opened its file (f_open was called and the command
\* was not answered 450) calls f_close once before it returns, on every way out.
C37_FileClosedOnce ==
    /\ last.verb \in {"RETR", "STOR"}
    /\ Pos(last.ev, "f_open", "") # {}
    /\ Pos(last.ev, "ftp_send", "450") = {}
    => Cardinality(Pos(last.ev, "f_close", "")) = 1

====
